---- MODULE Spec2Model ----
(***************************************************************************)
(* Accessible parking locator: the geospatial helpers of the Android       *)
(* client, the web client and the Node server.                             *)
(*                                                                         *)
(*   - decodePolyline (HomeMapScreen.kt) is modelled one loop iteration    *)
(*     per step, with Kotlin's 32-bit Int arithmetic.                      *)
(*   - the centroid computations (server.mjs, App.tsx,                     *)
(*     GeoJsonParkingRepository.kt) are operators applied to geometries    *)
(*     drawn from bounded sets.                                            *)
(*   - the lot lists (GeoJsonParkingRepository.getParkingLots,             *)
(*     loadParkingLots and GET /api/nearest of server.mjs) are built from  *)
(*     a batch of GeoJSON features.                                        *)
(*   - formatDistance, haversineMeters and isInKingstonBounds are pure     *)
(*     functions; the state keeps the last call and what it returned.      *)
(*     Doubles are decimal floating-point numbers of eight digits there.   *)
(***************************************************************************)
EXTENDS Integers, Sequences, FiniteSets, TLC

VARIABLES
    encoded,    \* decodePolyline: the argument (a sequence of char codes)
    poly,       \* encoded.trim()
    pc,         \* position in decodePolyline
    index,      \* cursor
    lat,        \* running latitude total (Int, 1e-5 degrees)
    lng,        \* running longitude total
    result,     \* accumulator of the current character group
    shift,      \* bit offset of the next 5-bit chunk
    b,          \* last character read, minus 63
    out,        \* points added so far; each is <<lat, lng>>, the two Ints
                \* the code divides by 1E5 to build the LatLng
    status,     \* "none" | "running" | "returned" | "thrown"
    reads,      \* history: characters read by the current call
    src,        \* history: the path the argument was encoded from, or NoPath
    memo,       \* history: argument and outcome of the first finished call
    calls,      \* history: number of calls made so far
    geom,       \* centroid: the GeoJSON geometry last processed
    centroid,   \* centroid: what each implementation returned for geom
    features,   \* lots: the features of Parking_Lot_Areas.geojson
    lots,       \* lots: the list returned by the Android getParkingLots
    cachedLots, \* lots: the server's cachedLots
    nearest,    \* lots: the last GET /api/nearest and its answer
    call,       \* geo: the last call of a pure helper and what it returned
    cachedAssistantId, \* server: the assistant id kept between requests, or NullId
    cachedThreadId,    \* server: the thread id kept between requests, or NullId
    requests,   \* server: the POST /api/ai/recommend-parking requests being handled
    backboard,  \* Backboard: whether the API key is set, the assistants and threads created
    sent,       \* history: the user messages posted to Backboard threads
    quiet,      \* history: what existed at the last reset made with no request in flight
    chat,       \* POST /api/ai/recommend-parking handled in one piece: the request and its answer
    uiState,    \* ParkingSpotsViewModel._uiState.value
    jobs,       \* the coroutines launched by searchNearby, in the order of the calls
    localStorage,   \* web client: the items kingstonaccess_backboard_assistant_id and _thread_id
    threadCalls,    \* web client: the calls of backboardGetOrCreateThread and backboardResetThread
    created         \* web client: the pairs of ids that POST /api/ai/thread has answered with

vars == <<encoded, poly, pc, index, lat, lng, result, shift, b, out, status, reads, src, memo, calls, geom, centroid,
          features, lots, cachedLots, nearest, call,
          cachedAssistantId, cachedThreadId, requests, backboard, sent, quiet, chat,
          uiState, jobs, localStorage, threadCalls, created>>

searchVars == <<uiState, jobs>>

webVars == <<localStorage, threadCalls, created>>

\* the variables of the assistant cache of the server
aiVars == <<cachedAssistantId, cachedThreadId, requests, backboard, sent, quiet>>

-----------------------------------------------------------------------------
(* Bounds of the model *)

MaxLen == 4          \* longest raw argument of decodePolyline
MaxRepeatLen == 2    \* longest argument when calls are repeated
MaxPts == 2          \* longest path that is encoded and decoded again
MaxCalls == 3        \* calls in one history of repeated calls
MaxFeatures == 2     \* most features of the file read by the two loaders
MaxLots == 3         \* most features of the file behind GET /api/nearest
MaxRingLen == 2      \* longest ring drawn from the grid
MaxRequests == 2     \* requests the server handles at the same time
MaxIds == 2          \* assistants, and threads, that Backboard creates in one history
MaxChatLots == 12     \* lots in the largest file of the chat
MaxSearches == 3      \* calls of searchNearby in one history
MaxThreadCalls == 2   \* calls of the web client's thread functions in flight at once
MaxCreated == 3       \* pairs of ids that POST /api/ai/thread answers with in one history

-----------------------------------------------------------------------------
(* Kotlin Int: 32-bit two's complement.  Values stay in MinInt..MaxInt     *)
(* and every operator wraps as the JVM does.                               *)

MaxInt == 2147483647
MinInt == (-MaxInt) - 1

RECURSIVE Pow2(_)
Pow2(n) == IF n = 0 THEN 1 ELSE 2 * Pow2(n - 1)

\* x or y, bit by bit from the low end: x % 2 is the low bit and x \div 2
\* the arithmetic shift of a two's complement value
RECURSIVE Or32(_, _)
Or32(x, y) ==
    IF x = 0 THEN y
    ELSE IF y = 0 THEN x
    ELSE IF x = -1 \/ y = -1 THEN -1
    ELSE (IF x % 2 = 1 \/ y % 2 = 1 THEN 1 ELSE 0) + 2 * Or32(x \div 2, y \div 2)

\* x shl s: the JVM uses the low five bits of the shift distance; the bits
\* shifted past bit 31 are lost and bit 31 is the sign
Shl32(x, s) ==
    LET d == s % 32
    IN  IF d = 0 THEN x
        ELSE LET low == IF d = 31 THEN 0 ELSE (x % Pow2(31 - d)) * Pow2(d)
                 top == (x \div Pow2(31 - d)) % 2
             IN  IF top = 1 THEN (low - MaxInt) - 1 ELSE low

\* x shr 1 (arithmetic)
Shr1(x) == x \div 2

\* x.inv()
Inv(x) == (-x) - 1

\* x + y, wrapping
Add32(x, y) ==
    IF x >= 0 /\ y >= 0 /\ x > MaxInt - y THEN ((x - MaxInt) - 1) + ((y - MaxInt) - 1)
    ELSE IF x < 0 /\ y < 0 /\ x < MinInt - y THEN ((x + MaxInt) + 1) + ((y + MaxInt) + 1)
    ELSE x + y

-----------------------------------------------------------------------------
(* decodePolyline: characters are their UTF-16 codes *)

\* Char.isWhitespace, for the characters below 256
WhitespaceChars == {9, 10, 11, 12, 13, 28, 29, 30, 31, 32, 160}

IsWhitespace(c) == c \in WhitespaceChars

RECURSIVE TrimStart(_)
TrimStart(s) == IF s # <<>> /\ IsWhitespace(Head(s)) THEN TrimStart(Tail(s)) ELSE s

RECURSIVE TrimEnd(_)
TrimEnd(s) == IF s # <<>> /\ IsWhitespace(s[Len(s)]) THEN TrimEnd(SubSeq(s, 1, Len(s) - 1)) ELSE s

\* a decoder that forgets to trim
NoTrim(s) == s

\* encoded.trim()
Trim(s) == TrimEnd(TrimStart(s))

\* a mistaken un-zig-zag: negates instead of inverting
UnZigZagNegate(r) == IF r % 2 # 0 THEN -Shr1(r) ELSE Shr1(r)

\* if ((result and 1) != 0) (result shr 1).inv() else (result shr 1)
UnZigZag(r) == IF r % 2 # 0 THEN Inv(Shr1(r)) ELSE Shr1(r)

\* result or ((b and 0x1f) shl shift)
Accumulate(r, c, s) == Or32(r, Shl32(c % 32, s))

\* the loop condition of both do-while loops
MoreChars(c, i, n) == c >= 32 /\ i < n

\* locals that outlive the call: lat and lng keep their last values
InitLocalsStale ==
    /\ index' = 0
    /\ lat' = lat
    /\ lng' = lng
    /\ out' = <<>>

\* the locals of a call
InitLocals ==
    /\ index' = 0
    /\ lat' = 0
    /\ lng' = 0
    /\ out' = <<>>

\* the call: trim, the empty check, the locals
DecodePolyline(s, path) ==
    /\ encoded' = s
    /\ src' = path
    /\ poly' = Trim(s)
    /\ reads' = 0
    /\ result' = 0
    /\ shift' = 0
    /\ b' = 0
    /\ IF poly' = <<>>
         THEN /\ pc' = "done"
              /\ status' = "returned"
              /\ out' = <<>>
              /\ UNCHANGED <<index, lat, lng>>
         ELSE /\ pc' = "while"
              /\ status' = "running"
              /\ InitLocals

\* while (index < len), and the return after it
While ==
    /\ pc = "while"
    /\ IF index < Len(poly)
         THEN /\ result' = 0
              /\ shift' = 0
              /\ pc' = "latLoop"
              /\ UNCHANGED status
         ELSE /\ pc' = "done"
              /\ status' = "returned"
              /\ UNCHANGED <<result, shift>>
    /\ UNCHANGED <<encoded, poly, index, lat, lng, b, out, reads, src>>

\* a read that leaves the cursor on a character with the continuation bit
ReadCharStuck(loopPc, endPc) ==
    /\ pc = loopPc
    /\ IF index >= Len(poly)
         THEN /\ pc' = "done"
              /\ status' = "thrown"
              /\ UNCHANGED <<index, b, result, shift, reads>>
         ELSE /\ b' = poly[index + 1] - 63
              /\ index' = IF b' >= 32 THEN index ELSE index + 1
              /\ result' = Accumulate(result, b', shift)
              /\ shift' = shift + 5
              /\ reads' = reads + 1
              /\ pc' = IF MoreChars(b', index', Len(poly)) THEN loopPc ELSE endPc
              /\ UNCHANGED status
    /\ UNCHANGED <<encoded, poly, lat, lng, out, src>>

\* one iteration of a do-while loop: poly[index++] throws
\* StringIndexOutOfBoundsException when index is not below the length
ReadChar(loopPc, endPc) ==
    /\ pc = loopPc
    /\ IF index >= Len(poly)
         THEN /\ pc' = "done"
              /\ status' = "thrown"
              /\ UNCHANGED <<index, b, result, shift, reads>>
         ELSE /\ b' = poly[index + 1] - 63
              /\ index' = index + 1
              /\ result' = Accumulate(result, b', shift)
              /\ shift' = shift + 5
              /\ reads' = reads + 1
              /\ pc' = IF MoreChars(b', index', Len(poly)) THEN loopPc ELSE endPc
              /\ UNCHANGED status
    /\ UNCHANGED <<encoded, poly, lat, lng, out, src>>

LatRead == ReadChar("latLoop", "latEnd")

LngRead == ReadChar("lngLoop", "lngEnd")

\* a latitude that is the last delta instead of the running total
LatEndNoTotal ==
    /\ pc = "latEnd"
    /\ lat' = UnZigZag(result)
    /\ result' = 0
    /\ shift' = 0
    /\ pc' = "lngLoop"
    /\ UNCHANGED <<encoded, poly, index, lng, b, out, status, reads, src>>

\* dlat, lat += dlat, and the reset before the longitude loop
LatEnd ==
    /\ pc = "latEnd"
    /\ lat' = Add32(lat, UnZigZag(result))
    /\ result' = 0
    /\ shift' = 0
    /\ pc' = "lngLoop"
    /\ UNCHANGED <<encoded, poly, index, lng, b, out, status, reads, src>>

\* dlng, lng += dlng, out.add(LatLng(lat / 1E5, lng / 1E5))
LngEnd ==
    /\ pc = "lngEnd"
    /\ lng' = Add32(lng, UnZigZag(result))
    /\ out' = Append(out, <<lat, lng'>>)
    /\ pc' = "while"
    /\ UNCHANGED <<encoded, poly, index, lat, b, result, shift, status, reads, src>>

-----------------------------------------------------------------------------
(* Numbers of the centroid computations: exact fractions <<n, d>> in      *)
(* lowest terms with d > 0; d = 0 stands for the values that are not      *)
(* finite: Infinity <<1, 0>>, -Infinity <<-1, 0>>, NaN <<0, 0>>.          *)

Abs(n) == IF n < 0 THEN -n ELSE n

RECURSIVE GCD(_, _)
GCD(x, y) == IF y = 0 THEN x ELSE GCD(y, x % y)

Frac(n, d) == LET g == GCD(Abs(n), d) IN <<n \div g, d \div g>>

Num(n) == <<n, 1>>

PosInf == <<1, 0>>
NegInf == <<-1, 0>>
NaN == <<0, 0>>

\* Number.isFinite
IsFinite(x) == x[2] # 0

\* GeoJsonParkingRepository.kt: Double.isNaN
IsNaN(x) == x = NaN

Less(x, y) == x[1] * y[2] < y[1] * x[2]

\* Math.min, Math.max on a bound that is finite or still at its initial value
MathMin(x, y) == IF x = PosInf THEN y ELSE IF Less(y, x) THEN y ELSE x
MathMax(x, y) == IF x = NegInf THEN y ELSE IF Less(x, y) THEN y ELSE x

\* (x + y) / 2
HalfSum(x, y) == Frac(x[1] * y[2] + y[1] * x[2], 2 * x[2] * y[2])

\* x + y of IEEE 754: NaN is absorbing, an infinity absorbs every finite
\* value, Infinity + -Infinity is NaN
Plus(x, y) ==
    IF IsFinite(x) /\ IsFinite(y) THEN Frac(x[1] * y[2] + y[1] * x[2], x[2] * y[2])
    ELSE IF IsNaN(x) \/ IsNaN(y) THEN NaN
    ELSE IF IsFinite(x) THEN y
    ELSE IF IsFinite(y) THEN x
    ELSE IF x = y THEN x
    ELSE NaN

\* x / n for a count n > 0
Over(x, n) == IF IsFinite(x) THEN Frac(x[1], x[2] * n) ELSE x

\* no representative point
Null == <<>>

\* the bounds before any point is visited
EmptyBox == [minLat |-> PosInf, maxLat |-> NegInf, minLng |-> PosInf, maxLng |-> NegInf]

\* visit: a point with a coordinate that is not finite is skipped
Visit(box, ptLat, ptLng) ==
    IF ~IsFinite(ptLat) \/ ~IsFinite(ptLng) THEN box
    ELSE [minLat |-> MathMin(box.minLat, ptLat), maxLat |-> MathMax(box.maxLat, ptLat),
          minLng |-> MathMin(box.minLng, ptLng), maxLng |-> MathMax(box.maxLng, ptLng)]

\* the midpoint of the bounds, <<lat, lng>>, or null when nothing was visited
BoxCentre(box) ==
    IF ~IsFinite(box.minLat) \/ ~IsFinite(box.maxLat)
         \/ ~IsFinite(box.minLng) \/ ~IsFinite(box.maxLng)
      THEN Null
      ELSE <<HalfSum(box.minLat, box.maxLat), HalfSum(box.minLng, box.maxLng)>>

\* server.mjs: for (const pt of coords) visit(pt), pt = [lng, lat]
RECURSIVE VisitPoints(_, _)
VisitPoints(box, pts) ==
    IF pts = <<>> THEN box
    ELSE VisitPoints(Visit(box, Head(pts)[2], Head(pts)[1]), Tail(pts))

\* server.mjs centroidFromCoords.  depth says what coords is, which the
\* code reads off typeof first?.[0]: 1 a ring of points, 2 the rings of a
\* polygon, 3 the polygons of a multipolygon.  Below a ring the function
\* calls itself on every element and visits the centroids that are not null.
RECURSIVE centroidFromCoords(_, _)
RECURSIVE VisitSubs(_, _, _)
VisitSubs(box, subs, depth) ==
    IF subs = <<>> THEN box
    ELSE LET c == centroidFromCoords(Head(subs), depth - 1)
         IN  VisitSubs(IF c = Null THEN box ELSE Visit(box, c[1], c[2]), Tail(subs), depth)

centroidFromCoords(coords, depth) ==
    BoxCentre(IF coords = <<>> THEN EmptyBox
              ELSE IF depth = 1 THEN VisitPoints(EmptyBox, coords)
              ELSE VisitSubs(EmptyBox, coords, depth))

\* server.mjs loadParkingLots: the centre of a feature's geometry
ServerCenter(g) ==
    IF g.type = "Polygon" THEN centroidFromCoords(g.coordinates, 2)
    ELSE IF g.type = "MultiPolygon" THEN centroidFromCoords(g.coordinates, 3)
    ELSE Null

\* App.tsx toLatLng
ToLatLng(pt) == [lat |-> pt[2], lng |-> pt[1]]

\* ring.map(toLatLng)
MapRing(ring) == [i \in 1..Len(ring) |-> ToLatLng(ring[i])]

\* poly.map((ring) => ring.map(toLatLng))
MapPolygon(rings) == [i \in 1..Len(rings) |-> MapRing(rings[i])]

\* App.tsx: the polygons kept for a feature, [polygon][ring][point]
WebPolygons(g) ==
    IF g.type = "Polygon" THEN <<MapPolygon(g.coordinates)>>
    ELSE IF g.type = "MultiPolygon"
           THEN [i \in 1..Len(g.coordinates) |-> MapPolygon(g.coordinates[i])]
    ELSE <<>>

RECURSIVE WebVisitRing(_, _)
WebVisitRing(box, ring) ==
    IF ring = <<>> THEN box
    ELSE WebVisitRing(Visit(box, Head(ring).lat, Head(ring).lng), Tail(ring))

RECURSIVE WebVisitPolygon(_, _)
WebVisitPolygon(box, rings) ==
    IF rings = <<>> THEN box
    ELSE WebVisitPolygon(WebVisitRing(box, Head(rings)), Tail(rings))

RECURSIVE WebVisitPolygons(_, _)
WebVisitPolygons(box, polygons) ==
    IF polygons = <<>> THEN box
    ELSE WebVisitPolygons(WebVisitPolygon(box, Head(polygons)), Tail(polygons))

\* App.tsx lotCentroidsWithAccessibleSpaces: the entry of one lot with
\* accessible spaces, or null when the lot gets no entry
WebCentroid(g) == BoxCentre(WebVisitPolygons(EmptyBox, WebPolygons(g)))

\* GeoJsonParkingRepository.kt extractPolygonPoints: the points (lng, lat) of
\* the first ring that have no NaN coordinate
extractPolygonPoints(polygonCoordinates) ==
    IF polygonCoordinates = <<>> THEN <<>>
    ELSE SelectSeq(polygonCoordinates[1], LAMBDA pt : ~IsNaN(pt[1]) /\ ~IsNaN(pt[2]))

RECURSIVE SumOf(_, _)
SumOf(points, k) == IF points = <<>> THEN Num(0) ELSE Plus(Head(points)[k], SumOf(Tail(points), k))

\* GeoJsonParkingRepository.kt computeCentroid: avgLat to avgLng
computeCentroid(g) ==
    LET points == IF g.type = "Polygon" THEN extractPolygonPoints(g.coordinates)
                  ELSE IF g.type = "MultiPolygon"
                         THEN (IF g.coordinates = <<>> THEN <<>>
                               ELSE extractPolygonPoints(g.coordinates[1]))
                  ELSE <<>>
    IN  IF points = <<>> THEN Null
        ELSE <<Over(SumOf(points, 2), Len(points)), Over(SumOf(points, 1), Len(points))>>

\* nothing computed yet for geom
Pending == [server |-> <<"pending">>, web |-> <<"pending">>, android |-> <<"pending">>]

\* the server loads the feature
LoadParkingLots ==
    /\ centroid.server = <<"pending">>
    /\ centroid' = [centroid EXCEPT !.server = ServerCenter(geom)]
    /\ UNCHANGED geom

\* the web client computes the lot's centroid
LotCentroids ==
    /\ centroid.web = <<"pending">>
    /\ centroid' = [centroid EXCEPT !.web = WebCentroid(geom)]
    /\ UNCHANGED geom

\* the Android repository reads the feature
GetParkingLots ==
    /\ centroid.android = <<"pending">>
    /\ centroid' = [centroid EXCEPT !.android = computeCentroid(geom)]
    /\ UNCHANGED geom

-----------------------------------------------------------------------------
(* Doubles of the distance computations: decimal floating-point numbers     *)
(* <<m, e>> standing for m * 10^e, with 10^7 <= |m| < 10^8 or m = e = 0.    *)
(* Every operation rounds its result to these eight digits, and works on   *)
(* magnitudes, so that negating the operands negates the result.  All      *)
(* intermediate values stay below 2^31.                                    *)

\* 10^k for k in 0..8
Pow10(k) == <<1, 10, 100, 1000, 10000, 100000, 1000000, 10000000, 100000000>>[k + 1]

Sign(n) == IF n < 0 THEN -1 ELSE 1

\* round m * 10^e to eight digits
RECURSIVE Norm(_, _)
Norm(m, e) ==
    IF m = 0 THEN <<0, 0>>
    ELSE IF Abs(m) >= 100000000 THEN Norm(Sign(m) * ((Abs(m) + 5) \div 10), e + 1)
    ELSE IF Abs(m) < 10000 THEN Norm(m * 10000, e - 4)
    ELSE IF Abs(m) < 10000000 THEN Norm(m * 10, e - 1)
    ELSE <<m, e>>

\* the double of an integer
F(n) == Norm(n, 0)

\* -x
Neg(x) == <<-x[1], x[2]>>

\* x + y: the operand of smaller exponent is shifted, one guard digit kept
AddOrdered(x, y) ==
    LET d == x[2] - y[2]
    IN  IF d > 8 THEN x
        ELSE IF d = 0 THEN Norm(x[1] + y[1], x[2])
        ELSE Norm(x[1] * 10 + Sign(y[1]) * (Abs(y[1]) \div Pow10(d - 1)), x[2] - 1)

Add(x, y) ==
    IF x[1] = 0 THEN y
    ELSE IF y[1] = 0 THEN x
    ELSE IF x[2] >= y[2] THEN AddOrdered(x, y)
    ELSE AddOrdered(y, x)

\* x - y
Sub(x, y) == Add(x, Neg(y))

\* x * y: long multiplication on the halves of the mantissas
Mul(x, y) ==
    IF x[1] = 0 \/ y[1] = 0 THEN <<0, 0>>
    ELSE LET hx == Abs(x[1]) \div 10000
             lx == Abs(x[1]) % 10000
             hy == Abs(y[1]) \div 10000
             ly == Abs(y[1]) % 10000
             mid == hx * ly + lx * hy
         IN  Norm(Sign(x[1]) * Sign(y[1]) * (hx * hy * 10 + (mid + (lx * ly) \div 10000) \div 1000),
                  x[2] + y[2] + 7)

\* the quotient q so far, followed by the next n digits of r / d, r < d
RECURSIVE DivDigits(_, _, _, _)
DivDigits(q, r, d, n) ==
    IF n = 0 THEN q
    ELSE DivDigits(q * 10 + (r * 10) \div d, (r * 10) % d, d, n - 1)

\* x / y for y # 0: long division
Div(x, y) ==
    IF x[1] = 0 THEN <<0, 0>>
    ELSE LET n == Abs(x[1])
             d == Abs(y[1])
         IN  Norm(Sign(x[1]) * Sign(y[1]) * DivDigits(n \div d, n % d, d, 8), x[2] - y[2] - 8)

\* x < y
Lt(x, y) == Sub(x, y)[1] < 0

\* Math.min
Min(x, y) == IF Lt(y, x) THEN y ELSE x

\* the integer square root
RECURSIVE ISqrt(_)
ISqrt(n) ==
    IF n < 2 THEN n
    ELSE LET r == 2 * ISqrt(n \div 4)
         IN  IF (r + 1) * (r + 1) <= n THEN r + 1 ELSE r

\* one step of Newton's iteration for the square root of x
Newton(x, r) == Div(Add(r, Div(x, r)), F(2))

\* Math.sqrt for x >= 0: the integer square root of the mantissa, then two
\* steps of Newton's iteration
Sqrt(x) ==
    IF x[1] = 0 THEN x
    ELSE LET m == IF x[2] % 2 = 0 THEN x[1] ELSE x[1] * 10
             e == IF x[2] % 2 = 0 THEN x[2] ELSE x[2] - 1
         IN  Newton(x, Newton(x, Norm(ISqrt(m), e \div 2)))

\* Math.PI
PI == <<31415927, -7>>

\* the sum of n terms of an alternating power series: term t, whose
\* successor is -t * x2 / ((k + 1) * (k + 2))
RECURSIVE Series(_, _, _, _)
Series(t, x2, k, n) ==
    IF n = 0 THEN <<0, 0>>
    ELSE Add(t, Series(Neg(Div(Mul(t, x2), F((k + 1) * (k + 2)))), x2, k + 2, n - 1))

\* Math.sin and Math.cos for |x| <= pi/2: eight terms of the Taylor series
Sin(x) == Series(x, Mul(x, x), 1, 8)
Cos(x) == Series(F(1), Mul(x, x), 0, 8)

\* the sum of n terms of the arc tangent series: signed power pw over k
RECURSIVE AtanSeries(_, _, _, _)
AtanSeries(pw, t2, k, n) ==
    IF n = 0 THEN <<0, 0>>
    ELSE Add(Div(pw, F(k)), AtanSeries(Neg(Mul(pw, t2)), t2, k + 2, n - 1))

\* ten terms, for 0 <= |t| <= tan(pi/8)
AtanSmall(t) == AtanSeries(t, Mul(t, t), 1, 10)

\* tan(pi / 8)
TanPi8 == <<41421356, -8>>

\* the arc tangent of t >= 0: the series below tan(pi/8), and the
\* reductions atan t = pi/4 + atan((t-1)/(t+1)) = pi/2 - atan(1/t) above
Atan(t) ==
    IF Lt(F(1), t) THEN
        LET u == Div(F(1), t)
        IN  Sub(Div(PI, F(2)),
                IF Lt(TanPi8, u) THEN Add(Div(PI, F(4)), AtanSmall(Div(Sub(u, F(1)), Add(u, F(1)))))
                ELSE AtanSmall(u))
    ELSE IF Lt(TanPi8, t) THEN Add(Div(PI, F(4)), AtanSmall(Div(Sub(t, F(1)), Add(t, F(1)))))
    ELSE AtanSmall(t)

\* Math.atan2(y, x) for y >= 0 and x >= 0
Atan2(y, x) == IF x[1] = 0 THEN Div(PI, F(2)) ELSE Atan(Div(y, x))

\* Math.asin(z) for 0 <= z <= 1
Asin(z) == Atan2(z, Sqrt(Sub(F(1), Mul(z, z))))

-----------------------------------------------------------------------------
(* haversineMeters.  A point is [lat |-> double, lng |-> double], degrees. *)

LatLng(la, ln) == [lat |-> la, lng |-> ln]

\* const toRad = (d) => (d * Math.PI) / 180
ToRad(d) == Div(Mul(d, PI), F(180))

\* Math.toRadians
ToRadians(angdeg) == Mul(Div(angdeg, F(180)), PI)

\* the term without the cosines of the latitudes
HaversineTermFlat(s1, c1, c2, s2) == Add(Mul(s1, s1), Mul(s2, s2))

\* s1 * s1 + Math.cos(lat1) * Math.cos(lat2) * s2 * s2
HaversineTerm(s1, c1, c2, s2) == Add(Mul(s1, s1), Mul(Mul(Mul(c1, c2), s2), s2))

\* the web client's geo module
HaversineWeb(p, q) ==
    LET R == Norm(6371, 3)
        lat1 == ToRad(p.lat)
        lat2 == ToRad(q.lat)
        dLat == ToRad(Sub(q.lat, p.lat))
        dLon == ToRad(Sub(q.lng, p.lng))
        s1 == Sin(Div(dLat, F(2)))
        s2 == Sin(Div(dLon, F(2)))
        x == HaversineTerm(s1, Cos(lat1), Cos(lat2), s2)
        c == Mul(F(2), Atan2(Sqrt(x), Sqrt(Sub(F(1), x))))
    IN  Mul(R, c)

\* server.mjs, with the cosine of the first latitude taken twice
HaversineServerOneSided(p, q) ==
    LET R == F(6371000)
        dLat == ToRad(Sub(q.lat, p.lat))
        dLng == ToRad(Sub(q.lng, p.lng))
        lat1 == ToRad(p.lat)
        lat2 == ToRad(q.lat)
        s1 == Sin(Div(dLat, F(2)))
        s2 == Sin(Div(dLng, F(2)))
        h == HaversineTerm(s1, Cos(lat1), Cos(lat1), s2)
    IN  Mul(Mul(F(2), R), Asin(Min(F(1), Sqrt(h))))

\* server.mjs
HaversineServer(p, q) ==
    LET R == F(6371000)
        dLat == ToRad(Sub(q.lat, p.lat))
        dLng == ToRad(Sub(q.lng, p.lng))
        lat1 == ToRad(p.lat)
        lat2 == ToRad(q.lat)
        s1 == Sin(Div(dLat, F(2)))
        s2 == Sin(Div(dLng, F(2)))
        h == HaversineTerm(s1, Cos(lat1), Cos(lat2), s2)
    IN  Mul(Mul(F(2), R), Asin(Min(F(1), Sqrt(h))))

\* HomeMapScreen.kt haversineMeters(lat1, lng1, lat2, lng2)
HaversineAndroid(lat1, lng1, lat2, lng2) ==
    LET r == F(6371000)
        dLat == ToRadians(Sub(lat2, lat1))
        dLng == ToRadians(Sub(lng2, lng1))
        a == HaversineTerm(Sin(Div(dLat, F(2))), Cos(ToRadians(lat1)), Cos(ToRadians(lat2)),
                           Sin(Div(dLng, F(2))))
        c == Mul(F(2), Atan2(Sqrt(a), Sqrt(Sub(F(1), a))))
    IN  Mul(r, c)

-----------------------------------------------------------------------------
(* Arguments of decodePolyline *)

NoPath == <<"none">>

\* tab, ' ', '?', '@', 'A', '_', '`': whitespace, the chunks 0, 1 and 2
\* without the continuation bit, and the chunks 0 and 1 with it
Alphabet == {9, 32, 63, 64, 65, 95, 96}

Strings(A, n) == UNION {[1..k -> A] : k \in 0..n}

\* "_p~iF~ps|U_ulLnnqC_mqNvxq`@"
Canonical == <<95, 112, 126, 105, 70, 126, 112, 115, 124, 85, 95, 117, 108, 76,
               110, 110, 113, 67, 95, 109, 113, 78, 118, 120, 113, 96, 64>>

\* "```````@~~~~~~~?": two groups of eight characters, whose chunks reach
\* past bit 31 of result
Overlong == <<96, 96, 96, 96, 96, 96, 96, 64, 126, 126, 126, 126, 126, 126, 126, 63>>

\* Google's encoding of a signed value: zig-zag, 5-bit chunks, low chunk
\* first, 0x20 on every chunk but the last, +63
RECURSIVE Chunks(_)
Chunks(u) == IF u >= 32 THEN <<(32 + (u % 32)) + 63>> \o Chunks(u \div 32) ELSE <<u + 63>>

EncodeValue(v) == Chunks(IF v < 0 THEN Inv(2 * v) ELSE 2 * v)

RECURSIVE EncodeFrom(_, _, _)
EncodeFrom(ps, prevLat, prevLng) ==
    IF ps = <<>> THEN <<>>
    ELSE EncodeValue(Head(ps)[1] - prevLat) \o EncodeValue(Head(ps)[2] - prevLng)
         \o EncodeFrom(Tail(ps), Head(ps)[1], Head(ps)[2])

EncodePath(ps) == EncodeFrom(ps, 0, 0)

\* coordinates in 1e-5 degrees
PathLats == {-20, 0, 4423120}
PathLngs == {-7648600, 1, 16}
Paths == UNION {[1..k -> PathLats \X PathLngs] : k \in 0..MaxPts}

-----------------------------------------------------------------------------
(* Specifications of the decoder *)

Alphabet4 == {32, 63, 64, 95}

NoMemo == <<"none">>

\* what a finished call hands to its caller
Outcome(st, o) == IF st = "returned" THEN <<"returned", o>> ELSE <<st>>

InitLocalsZero ==
    /\ poly = <<>>
    /\ index = 0
    /\ lat = 0
    /\ lng = 0
    /\ result = 0
    /\ shift = 0
    /\ b = 0
    /\ out = <<>>
    /\ status = "none"
    /\ reads = 0

NoGeom == [type |-> "none", coordinates |-> <<>>]

InitCentroid ==
    /\ geom = NoGeom
    /\ centroid = Pending

\* getParkingLots has not returned
NotReturned == [returned |-> FALSE, list |-> <<>>]

\* let cachedLots = null
NotCached == [cached |-> FALSE, rows |-> <<>>]

\* no request made
NoRequest == [status |-> 0, lat |-> <<>>, lng |-> <<>>, limitRaw |-> <<>>, limit |-> 0, options |-> <<>>]

\* no feature read, nothing cached, no request made
InitLots ==
    /\ features = <<>>
    /\ lots = NotReturned
    /\ cachedLots = NotCached
    /\ nearest = NoRequest

NoCall == [fn |-> "none"]

InitCall == call = NoCall

\* server.mjs: let cachedAssistantId = null, let cachedThreadId = null
NullId == 0

\* a request slot that handles nothing
IdleRequest ==
    [pc |-> "idle", blank |-> FALSE, assistantId |-> NullId, threadId |-> NullId,
     okCalls |-> 0, failedCalls |-> 0, loadFailed |-> FALSE, intent |-> "none", status |-> 0,
     error |-> FALSE]

NeverReset == [fresh |-> FALSE, threads |-> 0, assistants |-> 0]

\* the server has started and no request has arrived
InitAi ==
    /\ cachedAssistantId = NullId
    /\ cachedThreadId = NullId
    /\ requests = [r \in 1..MaxRequests |-> IdleRequest]
    /\ backboard = [key |-> TRUE, assistants |-> 0, threads |-> <<>>]
    /\ sent = {}
    /\ quiet = NeverReset

\* server.mjs: maxWalkDistance: null, closestDistance = null
NullDistance == -1

\* the intent before anything is read in the message
EmptyIntent ==
    [destination |-> "", area |-> "", maxWalkDistance |-> NullDistance, intent |-> "",
     aiResponse |-> "", navigateTo |-> "", suggestedParkingLot |-> ""]

\* let destination = null
NoDestination == [lat |-> <<0, 0>>, lng |-> <<0, 0>>]

\* no answer has been sent
NoAnswer ==
    [status |-> 0, error |-> "", isConversation |-> FALSE, recommendations |-> <<>>,
     suggestedParkingLot |-> "", navigateTo |-> "", intent |-> EmptyIntent, aiResponse |-> "",
     destination |-> NoDestination, destinationLabel |-> "", userMaxWalk |-> NullDistance,
     withinWalkDistance |-> 0, closestDistance |-> NullDistance]

\* no chat request is being handled
NoChat == [status |-> 0, message |-> "", outcome |-> "", readable |-> TRUE]

InitChat == chat = [request |-> NoChat, answer |-> NoAnswer]

\* ParkingSpotsUiState
Idle == [kind |-> "Idle", spots |-> <<>>, message |-> ""]
Loading == [kind |-> "Loading", spots |-> <<>>, message |-> ""]
Loaded(spots) == [kind |-> "Loaded", spots |-> spots, message |-> ""]
Error(message) == [kind |-> "Error", spots |-> <<>>, message |-> message]

\* a coroutine that searchNearby has not launched
NoJob == [pc |-> "none", center |-> "", thrown |-> FALSE, spots |-> <<>>, hasMessage |-> FALSE, message |-> ""]

\* MutableStateFlow<ParkingSpotsUiState>(ParkingSpotsUiState.Idle)
InitSearch ==
    /\ uiState = Idle
    /\ jobs = [j \in 1..MaxSearches |-> NoJob]

\* localStorage.getItem of an item that is not there
NullItem == ""

\* a call slot of the web client in which nothing runs
NoThreadCall == [pc |-> "idle", fn |-> "", fetched |-> FALSE, returned |-> <<>>]

\* the page has loaded with nothing stored
InitWeb ==
    /\ localStorage = [assistant |-> NullItem, thread |-> NullItem]
    /\ threadCalls = [c \in 1..MaxThreadCalls |-> NoThreadCall]
    /\ created = 0

\* one call, on a raw string, the canonical string, the overlong string or
\* an encoded path
InitDecode ==
    /\ pc = "call"
    /\ \/ encoded \in Strings(Alphabet, MaxLen) /\ src = NoPath
       \/ encoded = Canonical /\ src = NoPath
       \/ encoded = Overlong /\ src = NoPath
       \/ \E p \in Paths : encoded = EncodePath(p) /\ src = p
    /\ InitLocalsZero
    /\ memo = NoMemo
    /\ calls = 0
    /\ InitCentroid
    /\ InitLots
    /\ InitCall
    /\ InitAi
    /\ InitChat
    /\ InitSearch
    /\ InitWeb

FirstCall ==
    /\ pc = "call"
    /\ DecodePolyline(encoded, src)

NextDecode ==
    \/ (FirstCall /\ UNCHANGED <<memo, calls, geom, centroid, features, lots, cachedLots, nearest, call, aiVars, chat, searchVars, webVars>>)
    \/ (While /\ UNCHANGED <<memo, calls, geom, centroid, features, lots, cachedLots, nearest, call, aiVars, chat, searchVars, webVars>>)
    \/ (LatRead /\ UNCHANGED <<memo, calls, geom, centroid, features, lots, cachedLots, nearest, call, aiVars, chat, searchVars, webVars>>)
    \/ (LatEnd /\ UNCHANGED <<memo, calls, geom, centroid, features, lots, cachedLots, nearest, call, aiVars, chat, searchVars, webVars>>)
    \/ (LngRead /\ UNCHANGED <<memo, calls, geom, centroid, features, lots, cachedLots, nearest, call, aiVars, chat, searchVars, webVars>>)
    \/ (LngEnd /\ UNCHANGED <<memo, calls, geom, centroid, features, lots, cachedLots, nearest, call, aiVars, chat, searchVars, webVars>>)

SpecDecode == InitDecode /\ [][NextDecode]_vars

\* the call runs on a thread that is never starved
FairDecode == SpecDecode /\ WF_vars(NextDecode)

\* call after call on short strings; memo keeps the first call's argument
\* and outcome
InitRepeat ==
    /\ pc = "call"
    /\ encoded \in Strings(Alphabet4, MaxRepeatLen)
    /\ src = NoPath
    /\ InitLocalsZero
    /\ memo = NoMemo
    /\ calls = 0
    /\ InitCentroid
    /\ InitLots
    /\ InitCall
    /\ InitAi
    /\ InitChat
    /\ InitSearch
    /\ InitWeb

NextCall ==
    /\ pc = "done"
    /\ calls < MaxCalls
    /\ \E s \in Strings(Alphabet4, MaxRepeatLen) : DecodePolyline(s, NoPath)

Record ==
    /\ memo' = IF memo = NoMemo /\ pc' = "done"
                 THEN <<encoded', Outcome(status', out')>>
                 ELSE memo
    /\ calls' = IF pc \in {"call", "done"} THEN calls + 1 ELSE calls

NextRepeat ==
    \/ (FirstCall /\ Record /\ UNCHANGED <<geom, centroid, features, lots, cachedLots, nearest, call, aiVars, chat, searchVars, webVars>>)
    \/ (NextCall /\ Record /\ UNCHANGED <<geom, centroid, features, lots, cachedLots, nearest, call, aiVars, chat, searchVars, webVars>>)
    \/ (While /\ Record /\ UNCHANGED <<geom, centroid, features, lots, cachedLots, nearest, call, aiVars, chat, searchVars, webVars>>)
    \/ (LatRead /\ Record /\ UNCHANGED <<geom, centroid, features, lots, cachedLots, nearest, call, aiVars, chat, searchVars, webVars>>)
    \/ (LatEnd /\ Record /\ UNCHANGED <<geom, centroid, features, lots, cachedLots, nearest, call, aiVars, chat, searchVars, webVars>>)
    \/ (LngRead /\ Record /\ UNCHANGED <<geom, centroid, features, lots, cachedLots, nearest, call, aiVars, chat, searchVars, webVars>>)
    \/ (LngEnd /\ Record /\ UNCHANGED <<geom, centroid, features, lots, cachedLots, nearest, call, aiVars, chat, searchVars, webVars>>)

SpecRepeat == InitRepeat /\ [][NextRepeat]_vars

-----------------------------------------------------------------------------
(* Specification of the centroid computations: a geometry, and the three   *)
(* implementations applied to it in any order                              *)

Pt(x, y) == <<Num(x), Num(y)>>

GridPoints == {Pt(x, y) : x \in {0, 1}, y \in {0, 1}}

GridRings == UNION {[1..k -> GridPoints] : k \in 0..MaxRingLen}

\* the closed unit square, points as [lng, lat]
UnitSquare == <<Pt(0, 0), Pt(1, 0), Pt(1, 1), Pt(0, 1), Pt(0, 0)>>

\* a lot, and two holes inside it
LotRing == <<Pt(0, 0), Pt(8, 0), Pt(8, 8), Pt(0, 8), Pt(0, 0)>>
HoleRing == <<Pt(1, 1), Pt(3, 1), Pt(3, 3), Pt(1, 3), Pt(1, 1)>>
HoleRing2 == <<Pt(4, 5), Pt(7, 5), Pt(7, 6), Pt(4, 5)>>

Rings == GridRings \cup {UnitSquare, LotRing, HoleRing}

\* points [lng, lat] with a coordinate that is not finite
NonFinitePoints ==
    {<<NaN, Num(0)>>, <<Num(1), NaN>>, <<PosInf, Num(1)>>, <<Num(0), PosInf>>, <<Num(0), NegInf>>}

\* rings with one point or more that is not finite
NonFiniteRings ==
    UNION {[1..k -> GridPoints \cup NonFinitePoints] : k \in 1..MaxRingLen} \ GridRings

\* no ring, an outer ring, an outer ring and a hole, the lot with two holes
PolygonCoords ==
    {<<>>} \cup {<<r>> : r \in Rings} \cup {<<r, h>> : r \in Rings, h \in Rings}
        \cup {<<LotRing, HoleRing, HoleRing2>>}
        \cup {<<r>> : r \in NonFiniteRings}

\* the polygons of a multipolygon: one ring each, or the lot with its hole
PartCoords == {<<r>> : r \in Rings} \cup {<<LotRing, HoleRing>>}

\* one polygon whose ring has points that are not finite
NonFiniteParts == {<< <<r>> >> : r \in NonFiniteRings}

MultiPolygonCoords ==
    {<<>>} \cup {<<q>> : q \in PartCoords} \cup {<<q1, q2>> : q1 \in PartCoords, q2 \in PartCoords}
        \cup {<< <<UnitSquare>>, <<LotRing>>, <<HoleRing>> >>}
        \cup NonFiniteParts

Geometries ==
    {[type |-> "Polygon", coordinates |-> c] : c \in PolygonCoords}
        \cup {[type |-> "MultiPolygon", coordinates |-> c] : c \in MultiPolygonCoords}
        \cup {[type |-> "Point", coordinates |-> Pt(0, 1)]}

InitGeometry ==
    /\ pc = "idle"
    /\ encoded = <<>>
    /\ src = NoPath
    /\ InitLocalsZero
    /\ memo = NoMemo
    /\ calls = 0
    /\ geom \in Geometries
    /\ centroid = Pending
    /\ InitLots
    /\ InitCall
    /\ InitAi
    /\ InitChat
    /\ InitSearch
    /\ InitWeb

NextCentroid ==
    \/ (LoadParkingLots /\ UNCHANGED <<encoded, poly, pc, index, lat, lng, result, shift, b, out, status, reads, src, memo, calls, features, lots, cachedLots, nearest, call, aiVars, chat, searchVars, webVars>>)
    \/ (LotCentroids /\ UNCHANGED <<encoded, poly, pc, index, lat, lng, result, shift, b, out, status, reads, src, memo, calls, features, lots, cachedLots, nearest, call, aiVars, chat, searchVars, webVars>>)
    \/ (GetParkingLots /\ UNCHANGED <<encoded, poly, pc, index, lat, lng, result, shift, b, out, status, reads, src, memo, calls, features, lots, cachedLots, nearest, call, aiVars, chat, searchVars, webVars>>)

SpecCentroid == InitGeometry /\ [][NextCentroid]_vars

-----------------------------------------------------------------------------
(* The features of Parking_Lot_Areas.geojson and the lot lists built from  *)
(* them.  A JSON value is absent (or null), a number or a string; a string *)
(* is a sequence of characters.                                            *)

JAbsent == [kind |-> "absent", n |-> 0, s |-> <<>>]
JNumber(k) == [kind |-> "number", n |-> k, s |-> <<>>]
JString(str) == [kind |-> "string", n |-> 0, s |-> str]

DigitChars == <<"0", "1", "2", "3", "4", "5", "6", "7", "8", "9">>

IsDigit(ch) == \E d \in 1..10 : DigitChars[d] = ch

DigitValue(ch) == (CHOOSE d \in 1..10 : DigitChars[d] = ch) - 1

\* the decimal digits of n >= 0
RECURSIVE Digits(_)
Digits(n) == IF n < 10 THEN <<DigitChars[n + 1]>> ELSE Digits(n \div 10) \o <<DigitChars[(n % 10) + 1]>>

\* the value of a sequence of digits
RECURSIVE DigitsValue(_)
DigitsValue(ds) ==
    IF ds = <<>> THEN 0
    ELSE 10 * DigitsValue(SubSeq(ds, 1, Len(ds) - 1)) + DigitValue(ds[Len(ds)])

\* the digits at the start of a string
RECURSIVE LeadingDigits(_)
LeadingDigits(str) ==
    IF str = <<>> \/ ~IsDigit(Head(str)) THEN <<>>
    ELSE <<Head(str)>> \o LeadingDigits(Tail(str))

\* trim() of a string
RECURSIVE TrimLeft(_)
TrimLeft(str) == IF str # <<>> /\ Head(str) = " " THEN TrimLeft(Tail(str)) ELSE str

RECURSIVE TrimRight(_)
TrimRight(str) ==
    IF str # <<>> /\ str[Len(str)] = " " THEN TrimRight(SubSeq(str, 1, Len(str) - 1)) ELSE str

StringTrim(str) == TrimLeft(TrimRight(str))

\* the unsigned part of a string and its sign
Unsigned(str) == IF str # <<>> /\ Head(str) \in {"-", "+"} THEN Tail(str) ELSE str
SignOf(str) == IF str # <<>> /\ Head(str) = "-" THEN -1 ELSE 1

\* Kotlin String.toIntOrNull: an optional sign and digits only, else null
ToIntOrNull(str) ==
    IF Unsigned(str) # <<>> /\ LeadingDigits(Unsigned(str)) = Unsigned(str)
      THEN Num(SignOf(str) * DigitsValue(Unsigned(str)))
      ELSE Null

\* JSONObject.optInt(key, fallback)
OptInt(v, fallback) ==
    IF v.kind = "number" THEN v.n
    ELSE IF v.kind = "string" /\ ToIntOrNull(StringTrim(v.s)) # Null THEN ToIntOrNull(StringTrim(v.s))[1]
    ELSE fallback

\* GeoJsonParkingRepository.kt optIntOrNull
OptIntOrNull(v) ==
    IF v.kind = "number" THEN Num(v.n)
    ELSE IF v.kind = "string" THEN ToIntOrNull(StringTrim(v.s))
    ELSE Null

\* the geometry member of a feature that has none
NoGeometry == [type |-> "absent", coordinates |-> <<>>]

\* GeoJsonParkingRepository.kt getParkingLots: the ParkingLot of a feature
ParkingLot(f) ==
    LET c == IF f.geometry = NoGeometry THEN Null ELSE computeCentroid(f.geometry)
    IN  [objectId |-> OptInt(f.OBJECTID, -1),
         handicapSpaces |-> OptIntOrNull(f.HANDICAP_SPACE),
         centroidLat |-> IF c = Null THEN Null ELSE c[1],
         centroidLng |-> IF c = Null THEN Null ELSE c[2]]

\* getParkingLots: the list built from the features; a feature without
\* OBJECTID is passed over
RECURSIVE ParkingLots(_)
ParkingLots(fs) ==
    IF fs = <<>> THEN <<>>
    ELSE IF OptInt(Head(fs).OBJECTID, -1) = -1 THEN ParkingLots(Tail(fs))
    ELSE <<ParkingLot(Head(fs))>> \o ParkingLots(Tail(fs))

\* the Android repository reads the file
GetParkingLotsList ==
    /\ ~lots.returned
    /\ lots' = [returned |-> TRUE, list |-> ParkingLots(features)]
    /\ UNCHANGED <<features, cachedLots, nearest>>

\* String(v) of a number or a string
StringOf(v) ==
    IF v.kind = "number" THEN (IF v.n < 0 THEN <<"-">> \o Digits(-v.n) ELSE Digits(v.n))
    ELSE v.s

\* Number.parseInt(str, 10): leading blanks, a sign, then the digits up to
\* the first other character; NaN when there is no digit
ParseInt(str) ==
    LET ds == LeadingDigits(Unsigned(TrimLeft(str)))
    IN  IF ds = <<>> THEN NaN ELSE Num(SignOf(TrimLeft(str)) * DigitsValue(ds))

\* server.mjs normalizeHandicapSpace
normalizeHandicapSpace(v) ==
    IF v.kind = "absent" THEN Null
    ELSE IF StringTrim(StringOf(v)) = <<>> THEN Null
    ELSE IF ~IsFinite(ParseInt(StringTrim(StringOf(v)))) THEN Null
    ELSE ParseInt(StringTrim(StringOf(v)))

\* props.GLOBALID ?? props.OBJECTID ?? props.LOT_ID
IdRaw(f) ==
    IF f.GLOBALID.kind # "absent" THEN f.GLOBALID
    ELSE IF f.OBJECTID.kind # "absent" THEN f.OBJECTID
    ELSE f.LOT_ID

\* String(idRaw ?? '').trim()
IdOf(f) == StringTrim(StringOf(IdRaw(f)))

\* the feature is passed over, but for a count of zero or less
SkippedUncounted(f) ==
    \/ normalizeHandicapSpace(f.HANDICAP_SPACE) = Null
    \/ f.geometry = NoGeometry
    \/ ServerCenter(f.geometry) = Null
    \/ IdOf(f) = <<>>

\* loadParkingLots: the feature is passed over (continue)
Skipped(f) ==
    \/ normalizeHandicapSpace(f.HANDICAP_SPACE) = Null
    \/ normalizeHandicapSpace(f.HANDICAP_SPACE)[1] <= 0
    \/ f.geometry = NoGeometry
    \/ ServerCenter(f.geometry) = Null
    \/ IdOf(f) = <<>>

\* loadParkingLots: the row pushed for a feature
Row(f) ==
    [id |-> IdOf(f),
     lat |-> ServerCenter(f.geometry)[1],
     lng |-> ServerCenter(f.geometry)[2],
     handicapSpace |-> StringOf(f.HANDICAP_SPACE)]

\* loadParkingLots: the rows of the features, in file order
RECURSIVE Rows(_)
Rows(fs) ==
    IF fs = <<>> THEN <<>>
    ELSE IF Skipped(Head(fs)) THEN Rows(Tail(fs))
    ELSE <<Row(Head(fs))>> \o Rows(Tail(fs))

\* loadParkingLots: the cached rows when there are any, else the rows read
\* from the file
loadParkingLots == IF cachedLots.cached THEN cachedLots.rows ELSE Rows(features)

\* a handler loads the lots
LoadRows ==
    /\ cachedLots' = [cached |-> TRUE, rows |-> loadParkingLots]
    /\ UNCHANGED <<features, lots, nearest>>

\* Number(str) of a query parameter: blank is 0, digits with an optional
\* sign and fraction are their value, "Infinity" is infinite, anything else
\* is NaN
NumberOf(str) ==
    LET t == StringTrim(str)
        u == Unsigned(t)
        ip == LeadingDigits(u)
        rest == SubSeq(u, Len(ip) + 1, Len(u))
        fp == IF rest = <<>> THEN <<>> ELSE LeadingDigits(Tail(rest))
    IN  IF t = <<>> THEN Num(0)
        ELSE IF u = <<"I", "n", "f", "i", "n", "i", "t", "y">>
               THEN (IF SignOf(t) < 0 THEN NegInf ELSE PosInf)
        ELSE IF rest = <<>> THEN (IF ip = <<>> THEN NaN ELSE Num(SignOf(t) * DigitsValue(ip)))
        ELSE IF Head(rest) = "." /\ Len(fp) = Len(rest) - 1 /\ Len(ip) + Len(fp) > 0
               THEN Frac(SignOf(t) * (DigitsValue(ip) * Pow10(Len(fp)) + DigitsValue(fp)), Pow10(Len(fp)))
        ELSE NaN

\* server.mjs getNumberParam
getNumberParam(v) ==
    IF v.kind = "absent" THEN Null
    ELSE IF ~IsFinite(NumberOf(v.s)) THEN Null
    ELSE NumberOf(v.s)

\* Math.floor
Floor(x) == x[1] \div x[2]

\* the limit without its lower bound
LimitOfAtMost25(limitRaw) ==
    LET wanted == IF limitRaw # Null THEN Floor(limitRaw) ELSE 5
    IN  IF wanted > 25 THEN 25 ELSE wanted

\* Math.max(1, Math.min(25, limitRaw != null ? Math.floor(limitRaw) : 5))
LimitOf(limitRaw) ==
    LET wanted == IF limitRaw # Null THEN Floor(limitRaw) ELSE 5
        capped == IF wanted > 25 THEN 25 ELSE wanted
    IN  IF capped < 1 THEN 1 ELSE capped

\* the double of a fraction
ToDouble(x) == Div(F(x[1]), F(x[2]))

\* lots.map((l) => ({...l, distanceMeters: haversineMeters(origin, l)}))
RECURSIVE WithDistance(_, _)
WithDistance(origin, rows) ==
    IF rows = <<>> THEN <<>>
    ELSE <<[id |-> Head(rows).id, lat |-> Head(rows).lat, lng |-> Head(rows).lng,
            handicapSpace |-> Head(rows).handicapSpace,
            distanceMeters |-> HaversineServer(origin, LatLng(ToDouble(Head(rows).lat),
                                                              ToDouble(Head(rows).lng)))]>>
         \o WithDistance(origin, Tail(rows))

\* sort((a, b) => a.distanceMeters - b.distanceMeters): the sort is stable
RECURSIVE InsertByDistance(_, _)
InsertByDistance(sorted, x) ==
    IF sorted = <<>> THEN <<x>>
    ELSE IF Lt(x.distanceMeters, Head(sorted).distanceMeters) THEN <<x>> \o sorted
    ELSE <<Head(sorted)>> \o InsertByDistance(Tail(sorted), x)

RECURSIVE SortByDistance(_)
SortByDistance(xs) ==
    IF xs = <<>> THEN <<>>
    ELSE InsertByDistance(SortByDistance(SubSeq(xs, 1, Len(xs) - 1)), xs[Len(xs)])

\* slice(0, limit): a negative limit counts from the end
Slice(xs, limit) ==
    LET end == IF limit < 0 THEN Len(xs) + limit ELSE limit
    IN  SubSeq(xs, 1, IF end < 0 THEN 0 ELSE IF end < Len(xs) THEN end ELSE Len(xs))

\* GET /api/nearest?lat=&lng=&limit= : the request that is answered, the
\* handler's limit, and the answer
Nearest(latParam, lngParam, limitParam) ==
    LET la == getNumberParam(latParam)
        ln == getNumberParam(lngParam)
        origin == LatLng(ToDouble(la), ToDouble(ln))
        limit == LimitOf(getNumberParam(limitParam))
    IN  /\ nearest.status = 0
        /\ IF la = Null \/ ln = Null
             THEN /\ nearest' = [status |-> 400, lat |-> latParam, lng |-> lngParam,
                                 limitRaw |-> limitParam, limit |-> 0, options |-> <<>>]
                  /\ UNCHANGED <<features, lots, cachedLots>>
             ELSE /\ cachedLots' = [cached |-> TRUE, rows |-> loadParkingLots]
                  /\ nearest' = [status |-> 200, lat |-> latParam, lng |-> lngParam,
                                 limitRaw |-> limitParam, limit |-> limit,
                                 options |-> Slice(SortByDistance(WithDistance(origin, loadParkingLots)),
                                                   limit)]
                  /\ UNCHANGED <<features, lots>>

\* the answer has been sent and the client may ask again
Answered ==
    /\ nearest.status # 0
    /\ nearest' = NoRequest
    /\ UNCHANGED <<features, lots, cachedLots>>

-----------------------------------------------------------------------------
(* Specifications of the lot lists: a file of features, read by the        *)
(* Android repository and by the server (SpecLots), and the server         *)
(* answering GET /api/nearest over such a file (SpecNearest)               *)

\* a coordinate given in thousandths of a degree
Deg(milli) == Frac(milli, 1000)

\* a closed square ring of [lng, lat] points, 0.002 degrees wide
SquareAround(lngMilli, latMilli) ==
    <<<<Deg(lngMilli - 1), Deg(latMilli - 1)>>, <<Deg(lngMilli + 1), Deg(latMilli - 1)>>,
      <<Deg(lngMilli + 1), Deg(latMilli + 1)>>, <<Deg(lngMilli - 1), Deg(latMilli + 1)>>,
      <<Deg(lngMilli - 1), Deg(latMilli - 1)>>>>

Polygon(ring) == [type |-> "Polygon", coordinates |-> <<ring>>]

Feature(h, gid, oid, lid, g) ==
    [HANDICAP_SPACE |-> h, GLOBALID |-> gid, OBJECTID |-> oid, LOT_ID |-> lid, geometry |-> g]

\* three lots with accessible spaces, an id and a polygon
LotA == Feature(JNumber(2), JString(<<"a">>), JNumber(1), JAbsent, Polygon(SquareAround(-76486, 44231)))
LotB == Feature(JString(<<" ", "3">>), JAbsent, JNumber(2), JAbsent, Polygon(SquareAround(-76493, 44227)))
LotC ==
    Feature(JString(<<"1", "2", "a">>), JAbsent, JAbsent, JString(<<"c">>),
            [type |-> "MultiPolygon", coordinates |-> << <<SquareAround(-76500, 44240)>> >>])

\* lots without accessible spaces
CountZero == Feature(JNumber(0), JString(<<"d">>), JNumber(4), JAbsent, Polygon(SquareAround(-76480, 44230)))
CountAbsent == Feature(JAbsent, JString(<<"e">>), JNumber(5), JAbsent, Polygon(SquareAround(-76480, 44230)))
CountText == Feature(JString(<<"n", "o">>), JString(<<"f">>), JNumber(6), JAbsent, Polygon(SquareAround(-76480, 44230)))
CountNegative == Feature(JString(<<"-", "1">>), JString(<<"g">>), JNumber(7), JAbsent, Polygon(SquareAround(-76480, 44230)))

\* lots without an id: a blank GLOBALID, no id property at all
BlankId == Feature(JNumber(1), JString(<<" ">>), JNumber(8), JAbsent, Polygon(SquareAround(-76480, 44230)))
NoId == Feature(JNumber(1), JAbsent, JAbsent, JAbsent, Polygon(SquareAround(-76480, 44230)))

\* lots without a centroid: no geometry, a Point, an empty ring, a ring of
\* points that are not finite
NoGeometryLot == Feature(JNumber(1), JString(<<"h">>), JNumber(9), JAbsent, NoGeometry)
PointLot ==
    Feature(JNumber(1), JString(<<"i">>), JNumber(10), JAbsent,
            [type |-> "Point", coordinates |-> <<Deg(-76480), Deg(44230)>>])
EmptyRingLot == Feature(JNumber(1), JString(<<"j">>), JNumber(11), JAbsent, Polygon(<<>>))
NaNRingLot == Feature(JNumber(1), JString(<<"k">>), JNumber(12), JAbsent, Polygon(<<<<NaN, Deg(44230)>>>>))

\* lots whose centroid comes from part of the geometry: a point of the ring
\* is infinite (1e999 in the file), the outer ring is empty and a hole is not
InfinitePointLot ==
    Feature(JNumber(1), JString(<<"l">>), JNumber(13), JAbsent,
            Polygon(<<<<PosInf, Deg(44230)>>, <<Deg(-76480), Deg(44230)>>>>))
EmptyOuterRingLot ==
    Feature(JNumber(1), JString(<<"m">>), JNumber(14), JAbsent,
            [type |-> "Polygon", coordinates |-> <<<<>>, SquareAround(-76480, 44230)>>])

FileFeatures ==
    {LotA, LotB, LotC, CountZero, CountAbsent, CountText, CountNegative, BlankId, NoId,
     NoGeometryLot, PointLot, EmptyRingLot, NaNRingLot, InfinitePointLot, EmptyOuterRingLot}

InitIdle ==
    /\ pc = "idle"
    /\ encoded = <<>>
    /\ src = NoPath
    /\ InitLocalsZero
    /\ memo = NoMemo
    /\ calls = 0
    /\ InitCentroid

InitFile ==
    /\ InitIdle
    /\ InitCall
    /\ InitAi
    /\ InitChat
    /\ InitSearch
    /\ InitWeb
    /\ features \in UNION {[1..k -> FileFeatures] : k \in 0..MaxFeatures}
    /\ lots = NotReturned
    /\ cachedLots = NotCached
    /\ nearest = NoRequest

NextLots ==
    \/ (GetParkingLotsList /\ UNCHANGED <<encoded, poly, pc, index, lat, lng, result, shift, b, out, status, reads, src, memo, calls, geom, centroid, call, aiVars, chat, searchVars, webVars>>)
    \/ (LoadRows /\ UNCHANGED <<encoded, poly, pc, index, lat, lng, result, shift, b, out, status, reads, src, memo, calls, geom, centroid, call, aiVars, chat, searchVars, webVars>>)

SpecLots == InitFile /\ [][NextLots]_vars

\* the features behind GET /api/nearest
NearestFeatures == {LotA, LotB, LotC, CountZero}

\* query parameters: lat and lng
Param(str) == JString(str)
LatParam == Param(<<"4", "4", ".", "2", "3", "1">>)
LngParam == Param(<<"-", "7", "6", ".", "4", "8", "6">>)

\* query parameters: limit
LimitParams ==
    {JAbsent, Param(<<>>), Param(<<"a", "b", "c">>), Param(<<"I", "n", "f", "i", "n", "i", "t", "y">>),
     Param(<<"0">>), Param(<<"1">>), Param(<<"2">>), Param(<<"2", ".", "9">>),
     Param(<<"-", "3">>), Param(<<"3", "0">>)}

\* requests: a position with every limit, and positions that are missing,
\* not numbers, infinite or blank
Requests ==
    {<<LatParam, LngParam, l>> : l \in LimitParams}
        \cup {<<JAbsent, LngParam, JAbsent>>, <<LatParam, Param(<<"a", "b", "c">>), JAbsent>>,
              <<Param(<<"I", "n", "f", "i", "n", "i", "t", "y">>), LngParam, JAbsent>>,
              <<Param(<<>>), Param(<<" ">>), Param(<<"1">>)>>}

InitNearest ==
    /\ InitIdle
    /\ InitCall
    /\ InitAi
    /\ InitChat
    /\ InitSearch
    /\ InitWeb
    /\ features \in UNION {[1..k -> NearestFeatures] : k \in 0..MaxLots}
    /\ lots = NotReturned
    /\ cachedLots = NotCached
    /\ nearest = NoRequest

NextNearest ==
    \/ (LoadRows /\ UNCHANGED <<encoded, poly, pc, index, lat, lng, result, shift, b, out, status, reads, src, memo, calls, geom, centroid, call, aiVars, chat, searchVars, webVars>>)
    \/ \E r \in Requests :
           Nearest(r[1], r[2], r[3]) /\ UNCHANGED <<encoded, poly, pc, index, lat, lng, result, shift, b, out, status, reads, src, memo, calls, geom, centroid, call, aiVars, chat, searchVars, webVars>>
    \/ (Answered /\ UNCHANGED <<encoded, poly, pc, index, lat, lng, result, shift, b, out, status, reads, src, memo, calls, geom, centroid, call, aiVars, chat, searchVars, webVars>>)

SpecNearest == InitNearest /\ [][NextNearest]_vars

-----------------------------------------------------------------------------
(* formatDistance.  meters is an exact fraction; the result is the         *)
(* sequence of the characters of the string.                               *)

\* the last k decimal digits of n, with leading zeros
RECURSIVE PadDigits(_, _)
PadDigits(n, k) == IF k = 0 THEN <<>> ELSE PadDigits(n \div 10, k - 1) \o <<DigitChars[(n % 10) + 1]>>

\* Math.round(x) for x >= 0: floor(x + 0.5)
MathRound(x) == (2 * x[1] + x[2]) \div (2 * x[2])

\* x * 10^k rounded to the nearest integer, halves up, for x >= 0
Scaled(x, k) == (2 * x[1] * Pow10(k) + x[2]) \div (2 * x[2])

\* Number.prototype.toFixed(k) for x >= 0
ToFixed(x, k) ==
    Digits(Scaled(x, k) \div Pow10(k))
        \o (IF k = 0 THEN <<>> ELSE <<".">> \o PadDigits(Scaled(x, k) % Pow10(k), k))

\* the web client's geo module
formatDistanceWeb(meters) ==
    IF Less(meters, Num(1000)) THEN Digits(MathRound(meters)) \o <<" ", "m">>
    ELSE ToFixed(Over(meters, 1000), 2) \o <<" ", "k", "m">>

\* default locales of the device: the decimal separator of each
Locales ==
    {[tag |-> "en-US", decimalSeparator |-> "."],
     [tag |-> "de-DE", decimalSeparator |-> ","],
     [tag |-> "fr-CA", decimalSeparator |-> ","]}

\* String.format(locale, "%.kf", x) for x >= 0: halves up, the decimal
\* separator of the locale, no grouping
FormatFixed(locale, x, k) ==
    Digits(Scaled(x, k) \div Pow10(k))
        \o (IF k = 0 THEN <<>> ELSE <<locale.decimalSeparator>> \o PadDigits(Scaled(x, k) % Pow10(k), k))

\* HomeMapScreen.kt formatDistance, under the default locale
formatDistanceAndroid(meters, locale) ==
    IF ~Less(meters, Num(1000)) THEN FormatFixed(locale, Over(meters, 1000), 1) \o <<" ", "k", "m">>
    ELSE FormatFixed(locale, meters, 0) \o <<" ", "m">>

WebFormatDistance(meters) ==
    /\ call.fn = "none"
    /\ call' = [fn |-> "geo.formatDistance", meters |-> meters, ret |-> formatDistanceWeb(meters)]

AndroidFormatDistance(meters, locale) ==
    /\ call.fn = "none"
    /\ call' = [fn |-> "HomeMapScreen.formatDistance", meters |-> meters, locale |-> locale,
                ret |-> formatDistanceAndroid(meters, locale)]

-----------------------------------------------------------------------------
(* isInKingstonBounds.  Coordinates are exact fractions of a degree.       *)

KINGSTON_MIN_LAT == Frac(4410, 100)
KINGSTON_MAX_LAT == Frac(4440, 100)
KINGSTON_MIN_LNG == Frac(-7670, 100)
KINGSTON_MAX_LNG == Frac(-7620, 100)

\* x <= y of Doubles: false when either is NaN
AtMost(x, y) == ~IsNaN(x) /\ ~IsNaN(y) /\ ~Less(y, x)

\* the range without its two ends
InRangeExclusive(value, start, endInclusive) == Less(start, value) /\ Less(value, endInclusive)

\* value in start..endInclusive of a closed range of Doubles
InRange(value, start, endInclusive) == AtMost(start, value) /\ AtMost(value, endInclusive)

isInKingstonBounds(latLng) ==
    /\ InRange(latLng.latitude, KINGSTON_MIN_LAT, KINGSTON_MAX_LAT)
    /\ InRange(latLng.longitude, KINGSTON_MIN_LNG, KINGSTON_MAX_LNG)

IsInKingstonBounds(latLng) ==
    /\ call.fn = "none"
    /\ call' = [fn |-> "isInKingstonBounds", latLng |-> latLng, ret |-> isInKingstonBounds(latLng)]

-----------------------------------------------------------------------------
(* Specification of the pure helpers: one call after the other, on         *)
(* arguments drawn from the sets below                                     *)

\* distances in metres: quarters of a metre around 0 and around 1000, and
\* values of the two branches
MeterValues ==
    {Frac(k, 4) : k \in 0..8} \cup {Frac(k, 4) : k \in 3990..4008}
        \cup {Num(45), Frac(227, 5), Num(999), Num(1234), Num(1549), Num(1951), Num(9960),
              Num(12340), Frac(246913, 2)}

\* a decimal number of degrees, given in 1e-4 degrees
Degrees(tenThousandths) == Norm(tenThousandths, -4)

\* the two points of the known fixture, the corners of the Kingston box,
\* a point 1e-4 degrees from the first, and two far points
FixtureA == LatLng(Degrees(442312), Degrees(-764860))
FixtureB == LatLng(Degrees(442270), Degrees(-764930))

GeoPoints ==
    {FixtureA, FixtureB, LatLng(Degrees(442313), Degrees(-764860)),
     LatLng(Degrees(441000), Degrees(-767000)), LatLng(Degrees(444000), Degrees(-762000)),
     LatLng(Degrees(0), Degrees(0)), LatLng(Degrees(-338688), Degrees(1512093))}

\* points on, just inside and just outside the edges of the Kingston box
EdgeLats == {Frac(k, 100) : k \in {4409, 4410, 4411, 4425, 4439, 4440, 4441}} \cup {NaN}
EdgeLngs == {Frac(k, 100) : k \in {-7671, -7670, -7669, -7645, -7621, -7620, -7619}} \cup {NaN}

HaversineWebCall(p, q) ==
    /\ call.fn = "none"
    /\ call' = [fn |-> "geo.haversineMeters", a |-> p, b |-> q, ret |-> HaversineWeb(p, q)]

HaversineServerCall(p, q) ==
    /\ call.fn = "none"
    /\ call' = [fn |-> "server.haversineMeters", a |-> p, b |-> q, ret |-> HaversineServer(p, q)]

HaversineAndroidCall(p, q) ==
    /\ call.fn = "none"
    /\ call' = [fn |-> "HomeMapScreen.haversineMeters", a |-> p, b |-> q,
                ret |-> HaversineAndroid(p.lat, p.lng, q.lat, q.lng)]

\* the caller has used the result
Return ==
    /\ call.fn # "none"
    /\ call' = NoCall

InitGeo ==
    /\ InitIdle
    /\ InitLots
    /\ InitCall
    /\ InitAi
    /\ InitChat
    /\ InitSearch
    /\ InitWeb

NextGeo ==
    \/ \E m \in MeterValues :
           WebFormatDistance(m) /\ UNCHANGED <<encoded, poly, pc, index, lat, lng, result, shift, b, out, status, reads, src, memo, calls, geom, centroid, features, lots, cachedLots, nearest, aiVars, chat, searchVars, webVars>>
    \/ \E m \in MeterValues, l \in Locales :
           AndroidFormatDistance(m, l) /\ UNCHANGED <<encoded, poly, pc, index, lat, lng, result, shift, b, out, status, reads, src, memo, calls, geom, centroid, features, lots, cachedLots, nearest, aiVars, chat, searchVars, webVars>>
    \/ \E p \in GeoPoints, q \in GeoPoints :
           HaversineWebCall(p, q) /\ UNCHANGED <<encoded, poly, pc, index, lat, lng, result, shift, b, out, status, reads, src, memo, calls, geom, centroid, features, lots, cachedLots, nearest, aiVars, chat, searchVars, webVars>>
    \/ \E p \in GeoPoints, q \in GeoPoints :
           HaversineServerCall(p, q) /\ UNCHANGED <<encoded, poly, pc, index, lat, lng, result, shift, b, out, status, reads, src, memo, calls, geom, centroid, features, lots, cachedLots, nearest, aiVars, chat, searchVars, webVars>>
    \/ \E p \in GeoPoints, q \in GeoPoints :
           HaversineAndroidCall(p, q) /\ UNCHANGED <<encoded, poly, pc, index, lat, lng, result, shift, b, out, status, reads, src, memo, calls, geom, centroid, features, lots, cachedLots, nearest, aiVars, chat, searchVars, webVars>>
    \/ \E la \in EdgeLats, ln \in EdgeLngs :
           IsInKingstonBounds([latitude |-> la, longitude |-> ln]) /\ UNCHANGED <<encoded, poly, pc, index, lat, lng, result, shift, b, out, status, reads, src, memo, calls, geom, centroid, features, lots, cachedLots, nearest, aiVars, chat, searchVars, webVars>>

    \/ (Return /\ UNCHANGED <<encoded, poly, pc, index, lat, lng, result, shift, b, out, status, reads, src, memo, calls, geom, centroid, features, lots, cachedLots, nearest, aiVars, chat, searchVars, webVars>>)

SpecGeo == InitGeo /\ [][NextGeo]_vars

-----------------------------------------------------------------------------
(* The assistant cache of the server: POST /api/ai/recommend-parking and   *)
(* POST /api/ai/reset-thread.  Every await of a handler ends a step, so    *)
(* handlers of different requests interleave at the awaits.  Backboard     *)
(* numbers the assistants and the threads it creates 1, 2, ...             *)

\* a request is being handled
InFlight(req) == req.pc \notin {"idle", "done"}

\* the user message posted to thread t, which belongs to assistant owner
Message(t, owner) ==
    [thread |-> t, assistant |-> owner,
     staleThread |-> t <= quiet.threads, staleAssistant |-> owner <= quiet.assistants]

\* let threadId = cachedThreadId; if (!threadId) the thread is created, else
\* backboardMessage(threadId, ...) is called
ToThread(req, aid) ==
    IF cachedThreadId = NullId THEN [req EXCEPT !.pc = "thread", !.assistantId = aid]
    ELSE [req EXCEPT !.pc = "message", !.assistantId = aid, !.threadId = cachedThreadId]

\* the messages after the request has gone on to next
SentAfter(next) ==
    IF next.pc = "message" /\ backboard.key
      THEN sent \cup {Message(next.threadId, backboard.threads[next.threadId])}
      ELSE sent

\* a request arrives; the handler awaits parseBody
Arrive(r, blank) ==
    /\ ~InFlight(requests[r])
    /\ requests' = [requests EXCEPT ![r] = [IdleRequest EXCEPT !.pc = "body", !.blank = blank]]
    /\ quiet' = [quiet EXCEPT !.fresh = FALSE]
    /\ UNCHANGED <<cachedAssistantId, cachedThreadId, backboard, sent>>

\* the body is read: a blank message is answered 400; else the cached
\* assistant is used, or an assistant is asked for
ReadBody(r) ==
    LET req == requests[r]
        next == IF req.blank THEN [req EXCEPT !.pc = "done", !.status = 400, !.error = TRUE]
                ELSE IF cachedAssistantId = NullId THEN [req EXCEPT !.pc = "assistant"]
                ELSE ToThread(req, cachedAssistantId)
    IN  /\ req.pc = "body"
        /\ requests' = [requests EXCEPT ![r] = next]
        /\ sent' = SentAfter(next)
        /\ UNCHANGED <<cachedAssistantId, cachedThreadId, backboard, quiet>>

\* POST /assistants has answered with an assistant_id
AssistantCreated(r) ==
    LET req == requests[r]
        aid == backboard.assistants + 1
        next == ToThread([req EXCEPT !.okCalls = @ + 1], aid)
    IN  /\ req.pc = "assistant"
        /\ backboard.key
        /\ backboard.assistants < MaxIds
        /\ backboard' = [backboard EXCEPT !.assistants = aid]
        /\ cachedAssistantId' = aid
        /\ requests' = [requests EXCEPT ![r] = next]
        /\ sent' = SentAfter(next)
        /\ UNCHANGED <<cachedThreadId, quiet>>

\* POST /assistants/{assistantId}/threads has answered with a thread_id
ThreadCreated(r) ==
    LET req == requests[r]
        tid == Len(backboard.threads) + 1
    IN  /\ req.pc = "thread"
        /\ backboard.key
        /\ Len(backboard.threads) < MaxIds
        /\ backboard' = [backboard EXCEPT !.threads = Append(@, req.assistantId)]
        /\ cachedThreadId' = tid
        /\ requests' = [requests EXCEPT ![r] = [req EXCEPT !.pc = "message", !.threadId = tid,
                                                           !.okCalls = @ + 1]]
        /\ sent' = sent \cup {Message(tid, req.assistantId)}
        /\ UNCHANGED <<cachedAssistantId, quiet>>

\* the error of a Backboard call escapes the handler
OnBackboardErrorRethrown(req) ==
    [req EXCEPT !.pc = "done", !.failedCalls = @ + 1, !.status = 502, !.error = TRUE]

\* catch (aiError): the intent is found by the local keywords
OnBackboardError(req) ==
    [req EXCEPT !.pc = "load", !.failedCalls = @ + 1, !.intent = "local"]

\* a Backboard call throws: no API key, no answer, an answer that is not ok
BackboardFailed(r) ==
    /\ requests[r].pc \in {"assistant", "thread", "message"}
    /\ requests' = [requests EXCEPT ![r] = OnBackboardError(requests[r])]
    /\ UNCHANGED <<cachedAssistantId, cachedThreadId, backboard, sent, quiet>>

\* the assistant has answered the message
MessageAnswered(r) ==
    /\ requests[r].pc = "message"
    /\ backboard.key
    /\ requests' = [requests EXCEPT ![r] = [@ EXCEPT !.pc = "load", !.okCalls = @ + 1,
                                                     !.intent = "ai"]]
    /\ UNCHANGED <<cachedAssistantId, cachedThreadId, backboard, sent, quiet>>

\* loadParkingLots has returned and the request is answered
LotsLoaded(r) ==
    /\ requests[r].pc = "load"
    /\ requests' = [requests EXCEPT ![r] = [@ EXCEPT !.pc = "done", !.status = 200]]
    /\ UNCHANGED <<cachedAssistantId, cachedThreadId, backboard, sent, quiet>>

\* loadParkingLots has thrown: catch (e) answers with the error
LotsFailed(r) ==
    /\ requests[r].pc = "load"
    /\ requests' = [requests EXCEPT ![r] = [@ EXCEPT !.pc = "done", !.status = 500,
                                                     !.loadFailed = TRUE, !.error = TRUE]]
    /\ UNCHANGED <<cachedAssistantId, cachedThreadId, backboard, sent, quiet>>

\* what a reset leaves of the thread id when it clears the assistant only
ResetKeepsThread(threadId) == threadId

\* cachedThreadId = null
ResetThreadId(threadId) == NullId

\* POST /api/ai/reset-thread: the handler has no await
ResetThread ==
    /\ cachedThreadId' = ResetThreadId(cachedThreadId)
    /\ cachedAssistantId' = NullId
    /\ quiet' = IF \A r \in 1..MaxRequests : ~InFlight(requests[r])
                  THEN [fresh |-> TRUE, threads |-> Len(backboard.threads),
                        assistants |-> backboard.assistants]
                  ELSE quiet
    /\ UNCHANGED <<requests, backboard, sent>>

\* the server starts with or without a Backboard API key
InitServer ==
    /\ InitIdle
    /\ InitLots
    /\ InitCall
    /\ cachedAssistantId = NullId
    /\ cachedThreadId = NullId
    /\ requests = [r \in 1..MaxRequests |-> IdleRequest]
    /\ backboard \in {[key |-> k, assistants |-> 0, threads |-> <<>>] : k \in BOOLEAN}
    /\ sent = {}
    /\ quiet = NeverReset
    /\ InitChat
    /\ InitSearch
    /\ InitWeb

NextAi ==
    \/ \E r \in 1..MaxRequests, blank \in BOOLEAN : Arrive(r, blank) /\ UNCHANGED <<encoded, poly, pc, index, lat, lng, result, shift, b, out, status, reads, src, memo, calls, geom, centroid, features, lots, cachedLots, nearest, call, chat, searchVars, webVars>>
    \/ \E r \in 1..MaxRequests : ReadBody(r) /\ UNCHANGED <<encoded, poly, pc, index, lat, lng, result, shift, b, out, status, reads, src, memo, calls, geom, centroid, features, lots, cachedLots, nearest, call, chat, searchVars, webVars>>
    \/ \E r \in 1..MaxRequests : AssistantCreated(r) /\ UNCHANGED <<encoded, poly, pc, index, lat, lng, result, shift, b, out, status, reads, src, memo, calls, geom, centroid, features, lots, cachedLots, nearest, call, chat, searchVars, webVars>>
    \/ \E r \in 1..MaxRequests : ThreadCreated(r) /\ UNCHANGED <<encoded, poly, pc, index, lat, lng, result, shift, b, out, status, reads, src, memo, calls, geom, centroid, features, lots, cachedLots, nearest, call, chat, searchVars, webVars>>
    \/ \E r \in 1..MaxRequests : BackboardFailed(r) /\ UNCHANGED <<encoded, poly, pc, index, lat, lng, result, shift, b, out, status, reads, src, memo, calls, geom, centroid, features, lots, cachedLots, nearest, call, chat, searchVars, webVars>>
    \/ \E r \in 1..MaxRequests : MessageAnswered(r) /\ UNCHANGED <<encoded, poly, pc, index, lat, lng, result, shift, b, out, status, reads, src, memo, calls, geom, centroid, features, lots, cachedLots, nearest, call, chat, searchVars, webVars>>
    \/ \E r \in 1..MaxRequests : LotsLoaded(r) /\ UNCHANGED <<encoded, poly, pc, index, lat, lng, result, shift, b, out, status, reads, src, memo, calls, geom, centroid, features, lots, cachedLots, nearest, call, chat, searchVars, webVars>>
    \/ \E r \in 1..MaxRequests : LotsFailed(r) /\ UNCHANGED <<encoded, poly, pc, index, lat, lng, result, shift, b, out, status, reads, src, memo, calls, geom, centroid, features, lots, cachedLots, nearest, call, chat, searchVars, webVars>>
    \/ (ResetThread /\ UNCHANGED <<encoded, poly, pc, index, lat, lng, result, shift, b, out, status, reads, src, memo, calls, geom, centroid, features, lots, cachedLots, nearest, call, chat, searchVars, webVars>>)

SpecAi == InitServer /\ [][NextAi]_vars

-----------------------------------------------------------------------------
(* Strings of the chat: JavaScript strings are TLA+ strings, read with     *)
(* Len, SubSeq and \o.  The texts are single lines but for the blank line  *)
(* between the context and the user's message.                             *)

\* the character at position i, from 1
At(str, i) == SubSeq(str, i, i)

\* sub occurs in str at position i
StartsAt(str, sub, i) == i >= 1 /\ i + Len(sub) - 1 <= Len(str) /\ SubSeq(str, i, i + Len(sub) - 1) = sub

Least(S) == CHOOSE x \in S : \A y \in S : x <= y
Greatest(S) == CHOOSE x \in S : \A y \in S : y <= x

\* the first position >= from where sub occurs in str, or 0
IndexFrom(str, sub, from) ==
    LET S == {i \in from..(Len(str) - Len(sub) + 1) : StartsAt(str, sub, i)}
    IN  IF S = {} THEN 0 ELSE Least(S)

\* the last position where sub occurs in str, or 0
LastIndexOf(str, sub) ==
    LET S == {i \in 1..(Len(str) - Len(sub) + 1) : StartsAt(str, sub, i)}
    IN  IF S = {} THEN 0 ELSE Greatest(S)

\* String.prototype.includes
Includes(str, sub) == IndexFrom(str, sub, 1) # 0

\* the text from position i on
From(str, i) == SubSeq(str, i, Len(str))

\* \s of a regular expression, and what trim() removes
IsSpace(c) == c \in {" ", "\n", "\t"}

\* \d
IsDigitChar(c) == c \in {"0", "1", "2", "3", "4", "5", "6", "7", "8", "9"}

\* \w, for \b
IsWordChar(c) ==
    \/ IsDigitChar(c)
    \/ c = "_"
    \/ Includes("abcdefghijklmnopqrstuvwxyzABCDEFGHIJKLMNOPQRSTUVWXYZ", c)

\* String.prototype.trim
TrimText(str) ==
    LET S == {i \in 1..Len(str) : ~IsSpace(At(str, i))}
    IN  IF S = {} THEN "" ELSE SubSeq(str, Least(S), Greatest(S))

\* String.prototype.toLowerCase
LowerOf(c) ==
    LET i == IndexFrom("ABCDEFGHIJKLMNOPQRSTUVWXYZ", c, 1)
    IN  IF i = 0 THEN c ELSE At("abcdefghijklmnopqrstuvwxyz", i)

RECURSIVE ToLowerCase(_)
ToLowerCase(str) ==
    IF str = "" THEN "" ELSE LowerOf(At(str, 1)) \o ToLowerCase(From(str, 2))

\* the first position >= from whose character is none of stops, or
\* Len(str) + 1: the end of a run of characters of stops
RunEnd(str, from, stops) ==
    LET S == {i \in from..Len(str) : At(str, i) \notin stops}
    IN  IF S = {} THEN Len(str) + 1 ELSE Least(S)

\* the first position >= from whose character is one of stops, or
\* Len(str) + 1: the end of a run of other characters
RunUntil(str, from, stops) ==
    LET S == {i \in from..Len(str) : At(str, i) \in stops}
    IN  IF S = {} THEN Len(str) + 1 ELSE Least(S)

\* str.split(sep): the last part
LastPart(str, sep) ==
    IF LastIndexOf(str, sep) = 0 THEN str ELSE From(str, LastIndexOf(str, sep) + Len(sep))

\* str.split(' ')[0]
FirstWord(str) == SubSeq(str, 1, RunUntil(str, 1, {" "}) - 1)

\* Number.parseInt of a run of digits
RECURSIVE DecimalValue(_)
DecimalValue(str) ==
    IF str = "" THEN 0
    ELSE 10 * DecimalValue(SubSeq(str, 1, Len(str) - 1))
             + (IndexFrom("0123456789", At(str, Len(str)), 1) - 1)

-----------------------------------------------------------------------------
(* POST /api/ai/recommend-parking: what the handler reads in the message   *)

\* userMessage.includes('[Context:') && userMessage.includes("User's message:")
HasContextFormat(userMessage) ==
    Includes(userMessage, "[Context:") /\ Includes(userMessage, "User's message:")

\* parts[parts.length - 1].trim() of the split at "User's message:", or the
\* whole message when it has no context
ActualUserMessage(userMessage) ==
    IF HasContextFormat(userMessage) THEN TrimText(LastPart(userMessage, "User's message:"))
    ELSE userMessage

\* the positions after an occurrence of prefix where a run of one or more
\* characters other than stop begins
RunsAfter(str, prefix, stop) ==
    {i + Len(prefix) : i \in {j \in 1..Len(str) :
        /\ StartsAt(str, prefix, j)
        /\ RunUntil(str, j + Len(prefix), {stop}) > j + Len(prefix)}}

\* /destination is "([^"]+)"/ : the capture, or "" for no match
ContextDestination(userMessage) ==
    LET S == {i \in RunsAfter(userMessage, "destination is \"", "\"") :
                 RunUntil(userMessage, i, {"\""}) <= Len(userMessage)}
    IN  IF S = {} THEN ""
        ELSE SubSeq(userMessage, Least(S), RunUntil(userMessage, Least(S), {"\""}) - 1)

\* /User has selected: ([^.]+)/ : the capture, trimmed, or "" for no match
ContextSelectedLot(userMessage) ==
    LET S == RunsAfter(userMessage, "User has selected: ", ".")
    IN  IF S = {} THEN ""
        ELSE TrimText(SubSeq(userMessage, Least(S), RunUntil(userMessage, Least(S), {"."}) - 1))

\* where the capture of the options ends when it begins at position from:
\* before the first ". User has selected" or "]" that only characters
\* other than "]" precede; 0 when there is none
OptionsEnd(str, from) ==
    LET bracket == RunUntil(str, from, {"]"})
        S == {e \in (from + 1)..bracket :
                 StartsAt(str, ". User has selected", e) \/ (e = bracket /\ bracket <= Len(str))}
    IN  IF S = {} THEN 0 ELSE Least(S)

\* /Available parking options[^:]*:\s*([^\]]+?)(?:\. User has selected|\])/
\* : the capture, or "" for no match
OptionsText(userMessage) ==
    LET starts == {i \in 1..Len(userMessage) :
                      /\ StartsAt(userMessage, "Available parking options", i)
                      /\ RunUntil(userMessage, i + 25, {":"}) <= Len(userMessage)
                      /\ OptionsEnd(userMessage,
                                    RunEnd(userMessage, RunUntil(userMessage, i + 25, {":"}) + 1,
                                           {" ", "\n", "\t"})) # 0}
        from == RunEnd(userMessage, RunUntil(userMessage, Least(starts) + 25, {":"}) + 1,
                       {" ", "\n", "\t"})
    IN  IF starts = {} THEN "" ELSE SubSeq(userMessage, from, OptionsEnd(userMessage, from) - 1)

\* /\d+\.\s*([^(]+)\s*\(([^)]+)\)/ matches at position i of str: digits, a
\* point, a name of one character or more before "(", a distance of one
\* character or more before ")"
DigitsEnd(str, i) == RunEnd(str, i, {"0", "1", "2", "3", "4", "5", "6", "7", "8", "9"})
NameEnd(str, i) == RunUntil(str, DigitsEnd(str, i) + 1, {"("})
DistanceEnd(str, i) == RunUntil(str, NameEnd(str, i) + 1, {")"})

LotMatchesAt(str, i) ==
    /\ IsDigitChar(At(str, i))
    /\ At(str, DigitsEnd(str, i)) = "."
    /\ NameEnd(str, i) > DigitsEnd(str, i) + 1
    /\ NameEnd(str, i) <= Len(str)
    /\ DistanceEnd(str, i) > NameEnd(str, i) + 1
    /\ DistanceEnd(str, i) <= Len(str)

\* optionsStr.matchAll(...): { name: match[1].trim(), distance: match[2].trim() }
RECURSIVE LotMatches(_, _)
LotMatches(str, from) ==
    LET S == {i \in from..Len(str) : LotMatchesAt(str, i)}
        i == Least(S)
    IN  IF S = {} THEN <<>>
        ELSE <<[name |-> TrimText(SubSeq(str, DigitsEnd(str, i) + 1, NameEnd(str, i) - 1)),
                distance |-> TrimText(SubSeq(str, NameEnd(str, i) + 1, DistanceEnd(str, i) - 1))]>>
             \o LotMatches(str, DistanceEnd(str, i) + 1)

\* contextParkingOptions
ContextParkingOptions(userMessage) ==
    IF HasContextFormat(userMessage) /\ OptionsText(userMessage) # ""
      THEN LotMatches(OptionsText(userMessage), 1)
      ELSE <<>>

\* /(\d+)\s*(?:m\b|meter|metre)/ matches with its digits beginning at i
DistanceMatchesAt(str, i) ==
    LET e == DigitsEnd(str, i)
        u == RunEnd(str, e, {" ", "\n", "\t"})
    IN  /\ IsDigitChar(At(str, i))
        /\ \/ StartsAt(str, "meter", u)
           \/ StartsAt(str, "metre", u)
           \/ At(str, u) = "m" /\ (u = Len(str) \/ ~IsWordChar(At(str, u + 1)))

\* Number.parseInt(distMatch[1], 10), or NullDistance for no match
WalkDistance(str) ==
    LET S == {i \in 1..Len(str) : DistanceMatchesAt(str, i)}
    IN  IF S = {} THEN NullDistance ELSE DecimalValue(SubSeq(str, Least(S), DigitsEnd(str, Least(S)) - 1))

-----------------------------------------------------------------------------
(* POST /api/ai/recommend-parking: the local parsing, catch (aiError)      *)

\* the phrases of /(?:go to|navigate to|take me to|let'?s go to|head to|try|use)\s+(.+)/i
NavPhrases == {"go to", "navigate to", "take me to", "let's go to", "lets go to", "head to", "try", "use"}

\* a phrase, white space and one more character of the line begin at i
NavPhraseAt(lower, i) ==
    \E ph \in NavPhrases :
        /\ StartsAt(lower, ph, i)
        /\ IsSpace(At(lower, i + Len(ph)))
        /\ RunEnd(lower, i + Len(ph), {" ", "\n", "\t"}) <= Len(lower)

\* lower.match(navPatterns[0]): the capture (.+) of the leftmost match, the
\* rest of the line after the phrase and the white space
NavMatch1(lower) ==
    LET S == {i \in 1..Len(lower) : NavPhraseAt(lower, i)}
        ph == CHOOSE p \in NavPhrases :
                  StartsAt(lower, p, Least(S)) /\ IsSpace(At(lower, Least(S) + Len(p)))
        from == RunEnd(lower, Least(S) + Len(ph), {" ", "\n", "\t"})
    IN  IF S = {} THEN [matched |-> FALSE, target |-> ""]
        ELSE [matched |-> TRUE,
              target |-> SubSeq(lower, from, RunUntil(lower, from, {"\n"}) - 1)]

\* (?:\s+please|\s+lot)?$ matches rest
OptionalSuffix(rest) ==
    \/ rest = ""
    \/ \E w \in {"please", "lot"} :
           /\ Len(rest) > Len(w)
           /\ From(rest, Len(rest) - Len(w) + 1) = w
           /\ \A j \in 1..(Len(rest) - Len(w)) : IsSpace(At(rest, j))

\* lower.match(navPatterns[1]), /(.+?)(?:\s+please|\s+lot)?$/i : the capture
\* of the leftmost match, the shortest run of characters of one line that
\* the optional suffix and the end of the text follow
NavMatch2(lower) ==
    LET S == {sk \in (1..Len(lower)) \X (1..Len(lower)) :
                 /\ sk[1] <= sk[2]
                 /\ ~Includes(SubSeq(lower, sk[1], sk[2]), "\n")
                 /\ OptionalSuffix(From(lower, sk[2] + 1))}
        sk == CHOOSE x \in S : \A y \in S : x[1] < y[1] \/ (x[1] = y[1] /\ x[2] <= y[2])
    IN  IF S = {} THEN [matched |-> FALSE, target |-> ""]
        ELSE [matched |-> TRUE, target |-> SubSeq(lower, sk[1], sk[2])]

\* contextParkingOptions.find(p => lotLower.includes(targetName) ||
\* targetName.includes(firstWord)): the index of the lot, or 0
MatchedLot(options, targetName) ==
    LET S == {i \in 1..Len(options) :
                 \/ Includes(ToLowerCase(options[i].name), targetName)
                 \/ Includes(targetName, FirstWord(ToLowerCase(options[i].name)))}
    IN  IF S = {} THEN 0 ELSE Least(S)

\* for (const pattern of navPatterns): the lot of the first pattern that
\* matches and names a lot, or 0
NavigateToIndex(options, lower) ==
    IF NavMatch1(lower).matched /\ MatchedLot(options, TrimText(NavMatch1(lower).target)) # 0
      THEN MatchedLot(options, TrimText(NavMatch1(lower).target))
    ELSE IF NavMatch2(lower).matched
      THEN MatchedLot(options, TrimText(NavMatch2(lower).target))
    ELSE 0

\* the lot named first in the list by its first word, else the selected
\* lot, else 0 (mentionedLotIndex + 1)
MentionedLotIndex(options, lower, selected) ==
    LET named == {i \in 1..Len(options) : Includes(lower, FirstWord(ToLowerCase(options[i].name)))}
        chosen == {i \in 1..Len(options) : ToLowerCase(options[i].name) = ToLowerCase(selected)}
    IN  IF named # {} THEN Least(named)
        ELSE IF selected # "" /\ chosen # {} THEN Least(chosen)
        ELSE 0

\* lower.includes('full') || 'taken' || 'no space' || 'occupied'
SaysFull(lower) ==
    \/ Includes(lower, "full")
    \/ Includes(lower, "taken")
    \/ Includes(lower, "no space")
    \/ Includes(lower, "occupied")

\* ${x} of a template for a string that may be null
Shown(x) == IF x = "" THEN "null" ELSE x

\* contextParkingOptions.slice(0, 3).map((p, i) => `${i + 1}. ${p.name}
\* (${p.distance})`).join('\n'), from option i on
RECURSIVE OptionsList(_, _)
OptionsList(options, i) ==
    IF i > Len(options) \/ i > 3 THEN ""
    ELSE At("123", i) \o ". " \o options[i].name \o " (" \o options[i].distance \o ")"
             \o (IF i < Len(options) /\ i < 3 THEN "\n" ELSE "")
             \o OptionsList(options, i + 1)

\* the standard keyword detection of the local parsing
LocalKeywords(intent, lower, hasContext, destination, options) ==
    IF Includes(lower, "metro")
      THEN [intent EXCEPT !.destination = "Metro", !.intent = "Find parking near Metro"]
    ELSE IF Includes(lower, "shoppers")
      THEN [intent EXCEPT !.destination = "Shoppers Drug Mart",
                          !.intent = "Find parking near Shoppers Drug Mart"]
    ELSE IF Includes(lower, "walmart")
      THEN [intent EXCEPT !.destination = "Walmart", !.intent = "Find parking near Walmart"]
    ELSE IF Includes(lower, "downtown")
      THEN [intent EXCEPT !.area = "downtown", !.intent = "Find parking in downtown Kingston"]
    ELSE IF Includes(lower, "university") \/ Includes(lower, "queen")
      THEN [intent EXCEPT !.area = "university", !.intent = "Find parking near Queen's University"]
    ELSE IF hasContext /\ destination # ""
      THEN [intent EXCEPT !.aiResponse =
                "I'm having trouble understanding that, but I can still help! You're heading to "
                    \o destination \o ". Here are the available parking options:\n\n"
                    \o OptionsList(options, 1) \o "\n\nWhich one would you like to try?"]
    ELSE intent

\* the full lot is left out: the next lot of the list is suggested
SuggestNextLot(intent, options, mentioned) ==
    [intent EXCEPT
        !.aiResponse = "No problem! Since " \o options[mentioned].name
                           \o " is full, I suggest trying " \o options[mentioned + 1].name
                           \o ", which is " \o options[mentioned + 1].distance
                           \o " away. Would you like to navigate there?",
        !.suggestedParkingLot = options[mentioned + 1].name]

\* catch (aiError): the intent read from the message alone
LocalIntent(userMessage) ==
    LET hasContext == HasContextFormat(userMessage)
        options == ContextParkingOptions(userMessage)
        destination == IF hasContext THEN ContextDestination(userMessage) ELSE ""
        selected == IF hasContext THEN ContextSelectedLot(userMessage) ELSE ""
        lower == ToLowerCase(ActualUserMessage(userMessage))
        nav == IF hasContext /\ Len(options) > 0 THEN NavigateToIndex(options, lower) ELSE 0
        mentioned == MentionedLotIndex(options, lower, selected)
    IN  IF nav # 0
          THEN [EmptyIntent EXCEPT
                   !.navigateTo = options[nav].name,
                   !.aiResponse = "Great! Navigating to " \o Shown(destination) \o " via "
                                      \o options[nav].name
                                      \o ". The route is now displayed on the map!"]
        ELSE IF hasContext /\ Len(options) > 1 /\ SaysFull(lower)
                /\ mentioned >= 1 /\ mentioned < Len(options)
          THEN SuggestNextLot(EmptyIntent, options, mentioned)
        ELSE LocalKeywords(EmptyIntent, lower, hasContext, destination, options)

-----------------------------------------------------------------------------
(* POST /api/ai/recommend-parking: the intent when the assistant answers   *)

\* the destinations and areas looked for in the user's own message
AiKeywords(intent, userLower) ==
    IF Includes(userLower, "metro")
      THEN [intent EXCEPT !.destination = "Metro", !.intent = "Find parking near Metro"]
    ELSE IF Includes(userLower, "shoppers")
      THEN [intent EXCEPT !.destination = "Shoppers Drug Mart",
                          !.intent = "Find parking near Shoppers Drug Mart"]
    ELSE IF Includes(userLower, "walmart")
      THEN [intent EXCEPT !.destination = "Walmart", !.intent = "Find parking near Walmart"]
    ELSE IF Includes(userLower, "loblaws") \/ Includes(userLower, "loblaw")
      THEN [intent EXCEPT !.destination = "Loblaws", !.intent = "Find parking near Loblaws"]
    ELSE IF Includes(userLower, "costco")
      THEN [intent EXCEPT !.destination = "Costco", !.intent = "Find parking near Costco"]
    ELSE IF Includes(userLower, "hospital") \/ Includes(userLower, "kgh")
      THEN [intent EXCEPT !.destination = "Kingston General Hospital",
                          !.intent = "Find parking near Kingston General Hospital"]
    ELSE IF Includes(userLower, "downtown") \/ Includes(userLower, "city centre")
              \/ Includes(userLower, "city center")
      THEN [intent EXCEPT !.area = "downtown", !.intent = "Find parking in downtown Kingston"]
    ELSE IF Includes(userLower, "university") \/ Includes(userLower, "queen's")
              \/ Includes(userLower, "queens")
      THEN [intent EXCEPT !.area = "university", !.intent = "Find parking near Queen's University"]
    ELSE IF Includes(userLower, "waterfront") \/ Includes(userLower, "lake")
              \/ Includes(userLower, "harbour") \/ Includes(userLower, "harbor")
      THEN [intent EXCEPT !.area = "waterfront", !.intent = "Find parking near the waterfront"]
    ELSE IF Includes(userLower, "cataraqui")
      THEN [intent EXCEPT !.area = "cataraqui", !.intent = "Find parking in Cataraqui area"]
    ELSE intent

\* new RegExp(`${lotKey}[^.]*(?:full|taken|occupied)`, 'i').test(aiLower)
IsFullPattern(aiLower, lotKey) ==
    \E i \in 1..Len(aiLower) :
        /\ StartsAt(aiLower, lotKey, i)
        /\ \E j \in (i + Len(lotKey))..Len(aiLower) :
               /\ j <= RunUntil(aiLower, i + Len(lotKey), {"."})
               /\ \E w \in {"full", "taken", "occupied"} : StartsAt(aiLower, w, j)

\* the lot of the context that the assistant's answer suggests, or ""
AiSuggestedLot(userMessage, aiLower) ==
    LET contextLots == IF OptionsText(userMessage) = "" THEN <<>>
                       ELSE LotMatches(OptionsText(userMessage), 1)
        S == {i \in 1..Len(contextLots) :
                 /\ Includes(aiLower, FirstWord(ToLowerCase(contextLots[i].name)))
                 /\ ~IsFullPattern(aiLower, FirstWord(ToLowerCase(contextLots[i].name)))}
    IN  IF /\ Includes(userMessage, "[Context:")
           /\ \/ Includes(aiLower, "suggest")
              \/ Includes(aiLower, "next")
              \/ Includes(aiLower, "try")
              \/ Includes(aiLower, "would you like")
           /\ S # {}
          THEN contextLots[Least(S)].name
          ELSE ""

\* the try block after backboardMessage has returned content
AiIntent(userMessage, content) ==
    LET aiText == TrimText(content)
        userLower == ToLowerCase(ActualUserMessage(userMessage))
        placed == AiKeywords([EmptyIntent EXCEPT !.aiResponse = aiText], userLower)
    IN  [placed EXCEPT !.maxWalkDistance = WalkDistance(userLower),
                       !.suggestedParkingLot =
                           IF aiText # "" THEN AiSuggestedLot(userMessage, ToLowerCase(aiText)) ELSE ""]

-----------------------------------------------------------------------------
(* POST /api/ai/recommend-parking: from the intent to the answer           *)

\* the walking distance read again when none was set, and the generic intent
Completed(intent, userMessage) ==
    LET again == WalkDistance(ToLowerCase(ActualUserMessage(userMessage)))
        walk == IF intent.maxWalkDistance \in {NullDistance, 0} /\ again # NullDistance
                  THEN again ELSE intent.maxWalkDistance
    IN  [intent EXCEPT !.maxWalkDistance = walk,
                       !.intent = IF intent.intent = "" /\ intent.aiResponse = ""
                                    THEN "Find accessible parking nearby" ELSE @]

Place(key, la, ln, label) == [key |-> key, at |-> LatLng(Degrees(la), Degrees(ln)), label |-> label]

commonPlaces ==
    <<Place("metro", 442396, -764893, "Metro (Barrie St)"),
      Place("shoppers", 442312, -764860, "Shoppers Drug Mart"),
      Place("walmart", 442635, -765456, "Walmart"),
      Place("loblaws", 442630, -765400, "Loblaws"),
      Place("costco", 442650, -765520, "Costco"),
      Place("kingston general hospital", 442270, -764930, "Kingston General Hospital"),
      Place("kgh", 442270, -764930, "Kingston General Hospital")>>

areaLocations ==
    <<Place("downtown", 442312, -764860, "Downtown Kingston"),
      Place("university", 442250, -764950, "Queen's University"),
      Place("waterfront", 442290, -764800, "Kingston Waterfront"),
      Place("cataraqui", 442630, -765400, "Cataraqui")>>

\* the destination of the intent: the first common place whose key the
\* destination includes, else the area, else downtown Kingston
DestinationOf(intent) ==
    LET common == {i \in 1..Len(commonPlaces) :
                      intent.destination # ""
                          /\ Includes(ToLowerCase(intent.destination), commonPlaces[i].key)}
        areas == {i \in 1..Len(areaLocations) : areaLocations[i].key = intent.area}
    IN  IF common # {} THEN commonPlaces[Least(common)]
        ELSE IF areas # {} THEN areaLocations[Least(areas)]
        ELSE Place("", 442312, -764860,
                   IF intent.destination # "" THEN intent.destination ELSE intent.area)

\* Math.max(1000, (userMaxWalk ?? 500) * 5) without the lower bound
SearchRadiusOfWalk(userMaxWalk) == (IF userMaxWalk = NullDistance THEN 500 ELSE userMaxWalk) * 5

\* Math.max(1000, (userMaxWalk ?? 500) * 5)
SearchRadius(userMaxWalk) ==
    IF (IF userMaxWalk = NullDistance THEN 500 ELSE userMaxWalk) * 5 < 1000 THEN 1000
    ELSE (IF userMaxWalk = NullDistance THEN 500 ELSE userMaxWalk) * 5

\* filter((lot) => lot.distanceMeters <= limitMeters)
WithinMeters(xs, limitMeters) == SelectSeq(xs, LAMBDA x : ~Lt(F(limitMeters), x.distanceMeters))

\* Math.round of a distance
RoundMeters(d) ==
    IF d[2] >= 0 THEN d[1] * Pow10(d[2])
    ELSE IF -d[2] > 8 THEN 0
    ELSE (d[1] + 5 * Pow10(-d[2] - 1)) \div Pow10(-d[2])

\* allWithDistance.slice(0, 10)
Candidates(searchCenter, rows, userMaxWalk) ==
    Slice(SortByDistance(WithinMeters(WithDistance(searchCenter, rows), SearchRadius(userMaxWalk))), 10)

\* json(res, 200, ...) of a message without destination and area
ConversationAnswer(intent) ==
    [NoAnswer EXCEPT
        !.status = 200, !.isConversation = TRUE,
        !.suggestedParkingLot = intent.suggestedParkingLot, !.navigateTo = intent.navigateTo,
        !.intent = intent,
        !.aiResponse = IF intent.aiResponse # "" THEN intent.aiResponse
                       ELSE "Hello! I'm your parking assistant. I can help you find accessible parking in Kingston. Where would you like to go today? You can say things like 'Metro', 'Shoppers', or 'downtown Kingston'."]

\* json(res, 200, ...) with the candidates around the destination
ParkingAnswer(intent, rows) ==
    LET candidates == Candidates(DestinationOf(intent).at, rows, intent.maxWalkDistance)
        counted == intent.maxWalkDistance > 0 /\ Len(candidates) > 0
    IN  [NoAnswer EXCEPT
            !.status = 200, !.recommendations = candidates, !.intent = intent,
            !.aiResponse = intent.aiResponse,
            !.destination = DestinationOf(intent).at,
            !.destinationLabel = DestinationOf(intent).label,
            !.userMaxWalk = intent.maxWalkDistance,
            !.withinWalkDistance =
                IF counted THEN Len(WithinMeters(candidates, intent.maxWalkDistance)) ELSE 0,
            !.closestDistance =
                IF counted THEN RoundMeters(candidates[1].distanceMeters) ELSE NullDistance]

\* the answer to a message that is not blank, from the intent
AnswerOf(intent, rows) ==
    IF intent.destination = "" /\ intent.area = "" THEN ConversationAnswer(intent)
    ELSE ParkingAnswer(intent, rows)

-----------------------------------------------------------------------------
(* POST /api/ai/recommend-parking, one request at a time: the handler from *)
(* the body to the answer, with what Backboard did as an input             *)

\* what Backboard did: the assistant, the thread or the message call threw
\* (a null payload of the message call throws when its content is read), or
\* the message call returned content
Failure(kind) == [kind |-> kind, content |-> ""]
Content(text) == [kind |-> "content", content |-> text]

\* the assistant and the thread the handler uses, when it gets that far
AssistantUsed == IF cachedAssistantId # NullId THEN cachedAssistantId ELSE backboard.assistants + 1
ThreadUsed == IF cachedThreadId # NullId THEN cachedThreadId ELSE Len(backboard.threads) + 1

\* the assistant cache after the Backboard calls of one request
CacheAfter(outcome) ==
    LET hasAssistant == outcome.kind # "no assistant"
        hasThread == outcome.kind \notin {"no assistant", "no thread"}
        threads == IF hasThread /\ cachedThreadId = NullId
                     THEN Append(backboard.threads, AssistantUsed) ELSE backboard.threads
    IN  /\ cachedAssistantId' = IF hasAssistant THEN AssistantUsed ELSE cachedAssistantId
        /\ cachedThreadId' = IF hasThread THEN ThreadUsed ELSE cachedThreadId
        /\ backboard' = [backboard EXCEPT
                            !.assistants = IF hasAssistant /\ cachedAssistantId = NullId
                                             THEN @ + 1 ELSE @,
                            !.threads = threads]
        /\ sent' = IF hasThread THEN sent \cup {Message(ThreadUsed, threads[ThreadUsed])} ELSE sent

\* the intent of a message that is not blank
IntentOf(userMessage, outcome) ==
    Completed(IF outcome.kind = "content" THEN AiIntent(userMessage, outcome.content)
              ELSE LocalIntent(userMessage),
              userMessage)

\* the handler of POST /api/ai/recommend-parking; readable: the lots file
\* can be read
RecommendParking(message, outcome, readable) ==
    LET userMessage == TrimText(message)
        request == [status |-> 1, message |-> message, outcome |-> outcome.kind, readable |-> readable]
    IN  /\ chat.request.status = 0
        /\ outcome.kind = "no assistant" => cachedAssistantId = NullId
        /\ outcome.kind = "no thread" => cachedThreadId = NullId
        /\ IF userMessage = ""
             THEN /\ chat' = [request |-> request,
                              answer |-> [NoAnswer EXCEPT !.status = 400, !.error = "Missing message"]]
                  /\ UNCHANGED <<cachedAssistantId, cachedThreadId, backboard, sent, cachedLots>>
             ELSE /\ CacheAfter(outcome)
                  /\ IF ~readable /\ ~cachedLots.cached
                       THEN /\ chat' = [request |-> request,
                                        answer |-> [NoAnswer EXCEPT !.status = 500, !.error = "ENOENT"]]
                            /\ UNCHANGED cachedLots
                       ELSE /\ cachedLots' = [cached |-> TRUE, rows |-> loadParkingLots]
                            /\ chat' = [request |-> request,
                                        answer |-> AnswerOf(IntentOf(userMessage, outcome), loadParkingLots)]
        /\ UNCHANGED <<features, lots, nearest, requests, quiet>>

\* the answer has been sent and the client may write again
ChatAnswered ==
    /\ chat.request.status # 0
    /\ chat' = [request |-> NoChat, answer |-> NoAnswer]
    /\ UNCHANGED <<features, lots, cachedLots, nearest, aiVars>>

\* the lots of the file of the chat: squares north and south of the Metro
\* on Barrie Street, by their offset in thousandths of a degree; the fourth
\* has no accessible space
ChatOffsets == <<0, 9, -3, 1, -12, 5, -7, 2, 14, -1, 20, -5, 30>>

ChatLot(k) ==
    Feature(JNumber(IF k = 4 THEN 0 ELSE 1), JAbsent, JNumber(k), JAbsent,
            Polygon(SquareAround(-76489, 44240 + ChatOffsets[k])))

ChatFile(n) == [k \in 1..n |-> ChatLot(k)]

\* the context the client puts before the user's message
Context ==
    "[Context: User's destination is \"Metro\". Available parking options (nearest first): 1. McKee Lot (200m), 2. City Lot (350m), 3. Armstrong Lot (0.5 km). User has selected: McKee Lot.]\n\nUser's message: "

ShortContext ==
    "[Context: Available parking options (nearest first): 1. McKee Lot (200m), 2. City Lot (350m)]\n\nUser's message: "

ChatMessages ==
    {"", "   ", "Hello!", "I'm going to Metro", "parking near downtown within 100 m",
     "Walmart, at most 800 metres", "kgh", "metro 0 m", "the lake, 300 meters",
     Context \o "McKee is full", Context \o "it is full", Context \o "Armstrong is full",
     Context \o "the city lot is taken", Context \o "go to City Lot",
     Context \o "there is no space",
     ShortContext \o "City is occupied", ShortContext \o "McKee has no space"}

BackboardOutcomes ==
    {Failure("no assistant"), Failure("no thread"), Failure("no answer"),
     Content(""),
     Content("Great! I'll find accessible parking options near you."),
     Content("No problem! McKee Lot is full. I suggest the next option, City Lot. Would you like to go there?")}

InitRecommend ==
    /\ InitIdle
    /\ InitCall
    /\ InitAi
    /\ InitChat
    /\ InitSearch
    /\ InitWeb
    /\ features \in {ChatFile(n) : n \in {0, 3, MaxChatLots}}
    /\ lots = NotReturned
    /\ cachedLots = NotCached
    /\ nearest = NoRequest

NextRecommend ==
    \/ \E message \in ChatMessages, outcome \in BackboardOutcomes, readable \in BOOLEAN :
           RecommendParking(message, outcome, readable) /\ UNCHANGED <<encoded, poly, pc, index, lat, lng, result, shift, b, out, status, reads, src, memo, calls, geom, centroid, call, searchVars, webVars>>
    \/ (ChatAnswered /\ UNCHANGED <<encoded, poly, pc, index, lat, lng, result, shift, b, out, status, reads, src, memo, calls, geom, centroid, call, searchVars, webVars>>)

SpecRecommend == InitRecommend /\ [][NextRecommend]_vars

-----------------------------------------------------------------------------
(* ParkingSpotsViewModel.  searchNearby is called on the main thread; the  *)
(* coroutine it launches in viewModelScope runs at once up to the         *)
(* withContext(Dispatchers.IO) of the repository, the request runs on an   *)
(* IO thread, and the rest of the coroutine runs on the main thread when   *)
(* it is dispatched.  Coroutines of different calls complete in any order. *)

\* the variables of the other parts of the program
NotSearchVars ==
    <<encoded, poly, pc, index, lat, lng, result, shift, b, out, status, reads, src, memo, calls,
      geom, centroid, features, lots, cachedLots, nearest, call, aiVars, chat, webVars>>

\* the coroutine of the next call of searchNearby, or 0 when the history is full
NextJob ==
    IF \A j \in 1..MaxSearches : jobs[j].pc # "none" THEN 0
    ELSE CHOOSE j \in 1..MaxSearches :
             jobs[j].pc = "none" /\ \A i \in 1..MaxSearches : jobs[i].pc = "none" => j <= i

\* fun searchNearby(centerLat, centerLng, radiusMeters, limit)
SearchNearby(center) ==
    /\ NextJob # 0
    /\ uiState' = Loading
    /\ jobs' = [jobs EXCEPT ![NextJob] = [NoJob EXCEPT !.pc = "calling", !.center = center]]

\* repository.getNearbySpots returns the spots of the answer
RepositoryReturns(j, spots) ==
    /\ jobs[j].pc = "calling"
    /\ jobs' = [jobs EXCEPT ![j] = [@ EXCEPT !.pc = "returned", !.spots = spots]]
    /\ UNCHANGED uiState

\* repository.getNearbySpots throws: a timeout, an answer that is not 2xx,
\* a body that is not JSON; hasMessage: t.message is not null
RepositoryThrows(j, hasMessage, message) ==
    /\ jobs[j].pc = "calling"
    /\ jobs' = [jobs EXCEPT ![j] = [@ EXCEPT !.pc = "returned", !.thrown = TRUE,
                                             !.hasMessage = hasMessage,
                                             !.message = IF hasMessage THEN message ELSE ""]]
    /\ UNCHANGED uiState

\* a coroutine whose exception is not caught leaves the state as it is
OnThrowableLost(job) == Loading

\* catch (t: Throwable): ParkingSpotsUiState.Error(t.message ?: "Unknown error")
OnThrowable(job) == Error(IF job.hasMessage THEN job.message ELSE "Unknown error")

\* the state that the coroutine writes after the repository call
StateAfter(job) == IF job.thrown THEN OnThrowable(job) ELSE Loaded(job.spots)

\* the coroutine goes on after the repository call, on the main thread
Resume(j) ==
    /\ jobs[j].pc = "returned"
    /\ uiState' = StateAfter(jobs[j])
    /\ jobs' = [jobs EXCEPT ![j] = [@ EXCEPT !.pc = "done"]]

\* the centres searched around, and what the repository answers
Centres == {"A", "B"}
SpotsAround(center) == {<<>>, <<center>>}
Messages == {"timeout"}

NextSearch ==
    \/ \E center \in Centres : SearchNearby(center) /\ UNCHANGED NotSearchVars
    \/ \E j \in 1..MaxSearches : \E spots \in SpotsAround(jobs[j].center) :
           RepositoryReturns(j, spots) /\ UNCHANGED NotSearchVars
    \/ \E j \in 1..MaxSearches, hasMessage \in BOOLEAN, message \in Messages :
           RepositoryThrows(j, hasMessage, message) /\ UNCHANGED NotSearchVars
    \/ \E j \in 1..MaxSearches : Resume(j) /\ UNCHANGED NotSearchVars

InitViewModel ==
    /\ InitIdle
    /\ InitLots
    /\ InitCall
    /\ InitAi
    /\ InitChat
    /\ InitSearch
    /\ InitWeb

SpecSearch == InitViewModel /\ [][NextSearch]_vars

\* the main thread runs what is dispatched to it, and the request of the
\* repository ends: its connect and read timeouts are 8 seconds
FairSearch ==
    /\ SpecSearch
    /\ \A j \in 1..MaxSearches : WF_vars(Resume(j) /\ UNCHANGED NotSearchVars)
    /\ \A j \in 1..MaxSearches :
           WF_vars((\/ \E spots \in SpotsAround(jobs[j].center) : RepositoryReturns(j, spots)
                    \/ \E hasMessage \in BOOLEAN, message \in Messages :
                           RepositoryThrows(j, hasMessage, message))
                   /\ UNCHANGED NotSearchVars)

-----------------------------------------------------------------------------
(* backboard.ts: backboardGetOrCreateThread and backboardResetThread of    *)
(* the web client.  The calls run on the one thread of the page and        *)
(* interleave at their awaits.                                             *)

\* the variables of the other parts of the program
NotWebVars ==
    <<encoded, poly, pc, index, lat, lng, result, shift, b, out, status, reads, src, memo, calls,
      geom, centroid, features, lots, cachedLots, nearest, call, aiVars, chat, searchVars>>

\* the ids of the n-th answer of POST /api/ai/thread; the server answers 200
\* only with an assistant_id and a thread_id that are not empty
CreatedPair(n) ==
    [assistant_id |-> "assistant-" \o SubSeq("0123456789", n + 1, n + 1),
     thread_id |-> "thread-" \o SubSeq("0123456789", n + 1, n + 1)]

\* a call slot in which no call is running
Free(c) == threadCalls[c].pc \in {"idle", "returned", "thrown"}

\* existingAssistantId && existingThreadId
HasBoth(store) == store.assistant # NullItem /\ store.thread # NullItem

\* backboardGetOrCreateThread up to its return or its await
GetOrCreateThread(c) ==
    /\ Free(c)
    /\ threadCalls' = [threadCalls EXCEPT ![c] =
           IF HasBoth(localStorage)
             THEN [pc |-> "returned", fn |-> "backboardGetOrCreateThread", fetched |-> FALSE,
                   returned |-> <<localStorage.assistant, localStorage.thread>>]
             ELSE [pc |-> "creating", fn |-> "backboardGetOrCreateThread", fetched |-> TRUE,
                   returned |-> <<>>]]
    /\ UNCHANGED <<localStorage, created>>

\* localStorage after setItem of the assistant id only
StoreAssistantOnly(store, pair) == [store EXCEPT !.assistant = pair.assistant_id]

\* localStorage.setItem(LS_ASSISTANT_ID, created.assistant_id);
\* localStorage.setItem(LS_THREAD_ID, created.thread_id)
StoreCreated(store, pair) == [assistant |-> pair.assistant_id, thread |-> pair.thread_id]

\* POST /api/ai/thread has answered 200
CreationAnswered(c) ==
    /\ threadCalls[c].pc = "creating"
    /\ created < MaxCreated
    /\ created' = created + 1
    /\ localStorage' = StoreCreated(localStorage, CreatedPair(created + 1))
    /\ threadCalls' = [threadCalls EXCEPT ![c] =
           [@ EXCEPT !.pc = "returned",
                     !.returned = <<CreatedPair(created + 1).assistant_id,
                                    CreatedPair(created + 1).thread_id>>]]

\* fetchJson throws: no answer, or an answer that is not ok
CreationFailed(c) ==
    /\ threadCalls[c].pc = "creating"
    /\ threadCalls' = [threadCalls EXCEPT ![c] = [@ EXCEPT !.pc = "thrown"]]
    /\ UNCHANGED <<localStorage, created>>

\* backboardResetThread up to its await
BackboardResetThread(c) ==
    /\ Free(c)
    /\ localStorage' = [assistant |-> NullItem, thread |-> NullItem]
    /\ threadCalls' = [threadCalls EXCEPT ![c] =
           [pc |-> "resetting", fn |-> "backboardResetThread", fetched |-> TRUE, returned |-> <<>>]]
    /\ UNCHANGED created

\* POST /api/ai/reset-thread has answered or failed: both are ignored
ResetEnded(c) ==
    /\ threadCalls[c].pc = "resetting"
    /\ threadCalls' = [threadCalls EXCEPT ![c] = [@ EXCEPT !.pc = "returned"]]
    /\ UNCHANGED <<localStorage, created>>

\* the page loads with nothing stored, or with the pair of an earlier visit
InitPage ==
    /\ InitIdle
    /\ InitLots
    /\ InitCall
    /\ InitAi
    /\ InitChat
    /\ InitSearch
    /\ localStorage \in {[assistant |-> NullItem, thread |-> NullItem],
                         [assistant |-> CreatedPair(0).assistant_id, thread |-> CreatedPair(0).thread_id]}
    /\ threadCalls = [c \in 1..MaxThreadCalls |-> NoThreadCall]
    /\ created = 0

NextWeb ==
    \/ \E c \in 1..MaxThreadCalls : GetOrCreateThread(c) /\ UNCHANGED NotWebVars
    \/ \E c \in 1..MaxThreadCalls : CreationAnswered(c) /\ UNCHANGED NotWebVars
    \/ \E c \in 1..MaxThreadCalls : CreationFailed(c) /\ UNCHANGED NotWebVars
    \/ \E c \in 1..MaxThreadCalls : BackboardResetThread(c) /\ UNCHANGED NotWebVars
    \/ \E c \in 1..MaxThreadCalls : ResetEnded(c) /\ UNCHANGED NotWebVars

SpecWeb == InitPage /\ [][NextWeb]_vars

-----------------------------------------------------------------------------
(* Properties of decodePolyline *)

\* C1: for every argument decodePolyline returns a list; it never reads a
\* character at an index that is not below the length, and never throws.
C1_NeverThrows == status # "thrown"

\* The reference reading of an argument into character groups: a group is a
\* run of characters with the continuation bit (code - 63 >= 32) closed by
\* one character without it.  GroupEnd is the index of the character that
\* closes the group starting at i, or 0 when the string ends first.
RECURSIVE GroupEnd(_, _)
GroupEnd(s, i) ==
    IF i > Len(s) THEN 0
    ELSE IF s[i] - 63 < 32 THEN i
    ELSE GroupEnd(s, i + 1)

RECURSIVE GroupValue(_, _, _)
GroupValue(s, i, e) ==
    IF i > e THEN 0 ELSE ((s[i] - 63) % 32) + 32 * GroupValue(s, i + 1, e)

GroupDelta(s, i, e) ==
    LET v == GroupValue(s, i, e)
    IN  IF v % 2 = 1 THEN -((v + 1) \div 2) ELSE v \div 2

\* the points both of whose groups are completely present, from index i on
RECURSIVE CompletePoints(_, _, _, _)
CompletePoints(s, i, la, ln) ==
    LET e1 == GroupEnd(s, i)
        e2 == IF e1 = 0 THEN 0 ELSE GroupEnd(s, e1 + 1)
    IN  IF e1 = 0 \/ e2 = 0 THEN <<>>
        ELSE LET la2 == la + GroupDelta(s, i, e1)
                 ln2 == ln + GroupDelta(s, e1 + 1, e2)
             IN  <<<<la2, ln2>>>> \o CompletePoints(s, e2 + 1, la2, ln2)

\* the characters left after the last complete point
RECURSIVE Leftover(_, _)
Leftover(s, i) ==
    LET e1 == GroupEnd(s, i)
        e2 == IF e1 = 0 THEN 0 ELSE GroupEnd(s, e1 + 1)
    IN  IF e1 = 0 \/ e2 = 0 THEN Len(s) - (i - 1) ELSE Leftover(s, e2 + 1)

\* the string ends inside a group, or after a latitude group
Truncated(s) == Leftover(s, 1) > 0

\* C2: when the argument is truncated, the returned list holds exactly the
\* points whose latitude and longitude groups were both completely present;
\* no point comes from a partially read group.
C2_OnlyCompletePoints ==
    (pc = "done" /\ status = "returned" /\ Truncated(poly))
        => out = CompletePoints(poly, 1, 0, 0)

\* C3: the canonical example decodes to (38.5,-120.2), (40.7,-120.95),
\* (43.252,-126.453), in this order.
C3_CanonicalExample ==
    (pc = "done" /\ encoded = Canonical)
        => /\ status = "returned"
           /\ out = << <<3850000, -12020000>>, <<4070000, -12095000>>,
                       <<4325200, -12645300>> >>

C3_Witness == pc = "done" /\ encoded = Canonical /\ Len(out) = 3

\* C4: decoding the Google encoding of a path returns the path: the same
\* number of points, the same points, the same order.
C4_RoundTrip ==
    (pc = "done" /\ src # NoPath) => (status = "returned" /\ out = src)

\* a decoded path of two points whose second latitude is below the first
C4_Witness ==
    /\ pc = "done"
    /\ src # NoPath
    /\ Len(src) >= 2
    /\ src[2][1] < src[1][1]
    /\ src[2][2] # src[1][2]
    /\ Len(out) = Len(src)

\* what is left of the call: the characters not yet read, then the position
\* inside the current iteration
Rank(p) ==
    CASE p = "latLoop" -> 1
      [] p = "while" -> 2
      [] p = "lngLoop" -> 1
      [] p = "latEnd" -> 3
      [] p = "lngEnd" -> 3
      [] OTHER -> 0

Measure == 4 * (Len(poly) - index) + Rank(pc)

\* C5: decodePolyline terminates on every argument: every iteration of an
\* inner loop moves the cursor by one, every point takes at least two
\* characters, the cursor never passes the length, every step of a call
\* lowers a non-negative measure, and a running call ends.
C5_Terminates ==
    /\ [](status = "running" =>
            /\ reads = index
            /\ index <= Len(poly)
            /\ 2 * Len(out) <= index
            /\ Measure >= 0)
    /\ [][(status = "running" /\ status' = "running") => Measure' < Measure]_vars
    /\ [][(pc \in {"latLoop", "lngLoop"} /\ status' = "running") => index' = index + 1]_vars
    /\ ((status = "running") ~> (pc = "done"))

\* a call that read a whole argument of four characters or more, one of
\* them with the continuation bit, and ended
C5_Witness ==
    /\ pc = "done"
    /\ reads >= 4
    /\ reads = Len(poly)
    /\ \E i \in 1..Len(poly) : poly[i] >= 95

\* C6: the empty string and every string of whitespace give the empty list,
\* and no character is read.
C6_BlankIsEmpty ==
    (pc = "done" /\ \A i \in 1..Len(encoded) : encoded[i] \in {9, 32})
        => (status = "returned" /\ out = <<>> /\ reads = 0)

C6_Witness ==
    /\ pc = "done"
    /\ Len(encoded) >= 2
    /\ encoded[1] # encoded[2]
    /\ \A i \in 1..Len(encoded) : encoded[i] \in {9, 32}

\* C7: whatever calls came before, a call on the argument of the first call
\* has the outcome of the first call.
C7_SameArgumentSameOutcome ==
    (pc = "done" /\ memo # NoMemo /\ encoded = memo[1])
        => Outcome(status, out) = memo[2]

\* the third call of a history repeats the first argument and returns a
\* point that is not the origin
C7_Witness ==
    /\ pc = "done"
    /\ calls = 3
    /\ memo # NoMemo
    /\ encoded = memo[1]
    /\ status = "returned"
    /\ Len(out) >= 1
    /\ out[1] # <<0, 0>>

-----------------------------------------------------------------------------
(* Properties of the centroid computations *)

\* a linear ring of GeoJSON: four positions or more, the last the first
ClosedRing(r) == Len(r) >= 4 /\ r[1] = r[Len(r)]

\* every point of ring h lies within the bounds of ring r
Within(h, r) ==
    \A i \in 1..Len(h) :
        /\ \E j \in 1..Len(r) : ~Less(h[i][1], r[j][1])
        /\ \E j \in 1..Len(r) : ~Less(r[j][1], h[i][1])
        /\ \E j \in 1..Len(r) : ~Less(h[i][2], r[j][2])
        /\ \E j \in 1..Len(r) : ~Less(r[j][2], h[i][2])

\* an outer ring and one or more holes inside it, all of them closed
PolygonWithHoles(c) ==
    /\ Len(c) >= 2
    /\ \A k \in 1..Len(c) : ClosedRing(c[k])
    /\ \A k \in 2..Len(c) : Within(c[k], c[1])

\* C8: for a Polygon with an outer ring and one or more holes, the server's
\* centroidFromCoords returns what it returns for the outer ring alone.
C8_HolesIgnored ==
    (geom.type = "Polygon" /\ PolygonWithHoles(geom.coordinates)
        /\ centroid.server # <<"pending">>)
        => centroid.server = centroidFromCoords(<<geom.coordinates[1]>>, 2)

\* C9: for a MultiPolygon with two or more polygons, the server's and the
\* web client's centroid is the centroid of the first polygon alone.
C9_FirstPolygonOnly ==
    (/\ geom.type = "MultiPolygon"
     /\ Len(geom.coordinates) >= 2
     /\ \A k \in 1..Len(geom.coordinates) :
            /\ geom.coordinates[k] # <<>>
            /\ \A n \in 1..Len(geom.coordinates[k]) : ClosedRing(geom.coordinates[k][n]))
        => /\ centroid.server # <<"pending">>
               => centroid.server = centroidFromCoords(<<geom.coordinates[1]>>, 3)
           /\ centroid.web # <<"pending">>
               => centroid.web = WebCentroid([type |-> "MultiPolygon",
                                             coordinates |-> <<geom.coordinates[1]>>])

\* every coordinate of the ring is finite
AllFinite(ring) == \A i \in 1..Len(ring) : IsFinite(ring[i][1]) /\ IsFinite(ring[i][2])

\* the midpoint of the bounding box of a ring of [lng, lat] points, <<lat, lng>>
Lowest(S) == CHOOSE x \in S : \A y \in S : ~Less(y, x)
Highest(S) == CHOOSE x \in S : \A y \in S : ~Less(x, y)

BoxMidpoint(ring) ==
    LET lats == {ring[i][2] : i \in 1..Len(ring)}
        lngs == {ring[i][1] : i \in 1..Len(ring)}
    IN  <<HalfSum(Lowest(lats), Highest(lats)), HalfSum(Lowest(lngs), Highest(lngs))>>

\* C10: for every non-empty ring the Android computeCentroid returns the
\* midpoint of the ring's bounding box; the closed unit square gives
\* (0.5, 0.5).
C10_AndroidBoxMidpoint ==
    (/\ geom.type = "Polygon"
     /\ geom.coordinates # <<>>
     /\ geom.coordinates[1] # <<>>
     /\ AllFinite(geom.coordinates[1])
     /\ centroid.android # <<"pending">>)
        => /\ centroid.android = BoxMidpoint(geom.coordinates[1])
           /\ geom.coordinates[1] = UnitSquare => centroid.android = <<Frac(1, 2), Frac(1, 2)>>

\* the points of a ring whose two coordinates are finite
FinitePoints(ring) == SelectSeq(ring, LAMBDA pt : IsFinite(pt[1]) /\ IsFinite(pt[2]))

\* the geometry without the points that are not finite
FiniteGeometry(g) ==
    IF g.type = "Polygon"
      THEN [g EXCEPT !.coordinates = [n \in 1..Len(g.coordinates) |-> FinitePoints(g.coordinates[n])]]
    ELSE IF g.type = "MultiPolygon"
      THEN [g EXCEPT !.coordinates =
                [k \in 1..Len(g.coordinates) |->
                    [n \in 1..Len(g.coordinates[k]) |-> FinitePoints(g.coordinates[k][n])]]]
    ELSE g

HasNonFinite(g) == g # FiniteGeometry(g)

\* C11: a point with a NaN or infinite coordinate never influences the
\* centroid: the server's centroidFromCoords and the Android computeCentroid
\* return for a geometry what they return for the geometry without its
\* non-finite points, which is null when every point of the ring is
\* non-finite.
C11_NonFiniteSkipped ==
    HasNonFinite(geom)
        => /\ centroid.server # <<"pending">>
               => centroid.server = ServerCenter(FiniteGeometry(geom))
           /\ centroid.android # <<"pending">>
               => centroid.android = computeCentroid(FiniteGeometry(geom))

\* a Polygon whose outer ring is empty, or a geometry whose coordinates
\* array is empty
EmptyOuterRing(g) ==
    \/ g.type \in {"Polygon", "MultiPolygon"} /\ g.coordinates = <<>>
    \/ g.type = "Polygon" /\ g.coordinates # <<>> /\ g.coordinates[1] = <<>>

\* C12: for a Polygon whose outer ring is empty, and for a geometry with an
\* empty coordinates array, the server's centroidFromCoords and the Android
\* computeCentroid return null.
C12_EmptyRingIsNull ==
    EmptyOuterRing(geom)
        => /\ centroid.server # <<"pending">> => centroid.server = Null
           /\ centroid.android # <<"pending">> => centroid.android = Null

-----------------------------------------------------------------------------
(* Properties of the lot lists *)

\* C13: a feature whose centroid is null is omitted from the list that
\* getParkingLots returns: every ParkingLot of the list has a centroidLat
\* and a centroidLng that are not null.
C13_NullCentroidOmitted ==
    lots.returned
        => \A i \in 1..Len(lots.list) :
               lots.list[i].centroidLat # Null /\ lots.list[i].centroidLng # Null

-----------------------------------------------------------------------------
(* Properties of formatDistance *)

IsDigits(str) == str # <<>> /\ \A i \in 1..Len(str) : IsDigit(str[i])

\* digits, a decimal point, one digit, " km"
OneDecimalKm(str) ==
    /\ Len(str) >= 6
    /\ SubSeq(str, Len(str) - 2, Len(str)) = <<" ", "k", "m">>
    /\ IsDigit(str[Len(str) - 3])
    /\ str[Len(str) - 4] = "."
    /\ IsDigits(SubSeq(str, 1, Len(str) - 5))

\* C14: for meters >= 1000 formatDistance returns the kilometres with
\* exactly one digit after the decimal point, followed by " km", in the web
\* geo module and on Android; 1000 gives "1.0 km" and 1549 gives "1.5 km".
C14_OneDecimalKm ==
    (call.fn \in {"geo.formatDistance", "HomeMapScreen.formatDistance"}
        /\ ~Less(call.meters, Num(1000)))
        => /\ OneDecimalKm(call.ret)
           /\ call.meters = Num(1000) => call.ret = <<"1", ".", "0", " ", "k", "m">>
           /\ call.meters = Num(1549) => call.ret = <<"1", ".", "5", " ", "k", "m">>

\* the result has no separator of thousands and no decimal comma
PlainNumerals(str) == \A i \in 1..Len(str) : IsDigit(str[i]) \/ str[i] \in {".", " ", "k", "m"}

\* C15: the string returned by the Android formatDistance does not depend
\* on the default locale: under every other locale the result is the same,
\* with '.' as the decimal point and no separator of thousands.
C15_LocaleIndependent ==
    call.fn = "HomeMapScreen.formatDistance"
        => /\ \A l \in Locales : formatDistanceAndroid(call.meters, l) = call.ret
           /\ PlainNumerals(call.ret)

-----------------------------------------------------------------------------
(* Properties of haversineMeters *)

HaversineCalls == {"geo.haversineMeters", "server.haversineMeters", "HomeMapScreen.haversineMeters"}

\* the call is made on the two points of the known fixture
FixtureCall == call.fn \in HaversineCalls /\ call.a = FixtureA /\ call.b = FixtureB

\* low <= x <= high, in metres
Between(x, low, high) == ~Lt(x, F(low)) /\ ~Lt(F(high), x)

\* C16, as claimed: the distance between (44.2312, -76.4860) and
\* (44.2270, -76.4930) computed by haversineMeters lies between 680 m and
\* 720 m.
C16_FixtureBetween680And720 == FixtureCall => Between(call.ret, 680, 720)

\* C16, amended: the distance between (44.2312, -76.4860) and
\* (44.2270, -76.4930) computed by each of the three haversineMeters lies
\* between 727 m and 728 m.
C16_FixtureDistance == FixtureCall => Between(call.ret, 727, 728)

C16_Witness == FixtureCall /\ call.fn = "geo.haversineMeters" /\ call.ret = <<72744944, -5>>

\* C17: haversineMeters is symmetric: the web, the server and the Android
\* implementation return for (b, a) what they returned for (a, b).
C17_Symmetric ==
    /\ call.fn = "geo.haversineMeters" => HaversineWeb(call.b, call.a) = call.ret
    /\ call.fn = "server.haversineMeters" => HaversineServer(call.b, call.a) = call.ret
    /\ call.fn = "HomeMapScreen.haversineMeters"
           => HaversineAndroid(call.b.lat, call.b.lng, call.a.lat, call.a.lng) = call.ret

C17_Witness ==
    /\ call.fn = "server.haversineMeters"
    /\ call.a.lat # call.b.lat
    /\ call.a.lng # call.b.lng
    /\ Lt(F(1000000), call.ret)

-----------------------------------------------------------------------------
(* Properties of isInKingstonBounds *)

\* low/100 <= x <= high/100 for a number x = n/d of degrees, in integers
WithinHundredths(x, low, high) ==
    /\ IsFinite(x)
    /\ low * x[2] <= 100 * x[1]
    /\ 100 * x[1] <= high * x[2]

\* the point lies on one of the four edges of the box or on a corner
OnEdge(p) ==
    /\ WithinHundredths(p.latitude, 4410, 4440)
    /\ WithinHundredths(p.longitude, -7670, -7620)
    /\ \/ p.latitude \in {Frac(4410, 100), Frac(4440, 100)}
       \/ p.longitude \in {Frac(-7670, 100), Frac(-7620, 100)}

\* C18: isInKingstonBounds(p) is true if and only if
\* 44.10 <= p.latitude <= 44.40 and -76.70 <= p.longitude <= -76.20; a point
\* exactly on an edge or a corner of the box is inside.
C18_InclusiveBounds ==
    call.fn = "isInKingstonBounds"
        => /\ call.ret <=> /\ WithinHundredths(call.latLng.latitude, 4410, 4440)
                           /\ WithinHundredths(call.latLng.longitude, -7670, -7620)
           /\ OnEdge(call.latLng) => call.ret

\* the south-west corner has been found inside
C18_Witness ==
    /\ call.fn = "isInKingstonBounds"
    /\ call.latLng = [latitude |-> Frac(4410, 100), longitude |-> Frac(-7670, 100)]
    /\ call.ret

-----------------------------------------------------------------------------
(* Properties of GET /api/nearest *)

\* the limit L of the claim for each limit parameter of the requests:
\* floor(limit) clamped to 1..25, and 5 when the parameter is absent or
\* not a finite number
ExpectedLimit(limitParam) ==
    IF limitParam = JAbsent THEN 5
    ELSE IF limitParam.s = <<"a", "b", "c">> THEN 5
    ELSE IF limitParam.s = <<"I", "n", "f", "i", "n", "i", "t", "y">> THEN 5
    ELSE IF limitParam.s = <<>> THEN 1
    ELSE IF limitParam.s = <<"0">> THEN 1
    ELSE IF limitParam.s = <<"1">> THEN 1
    ELSE IF limitParam.s = <<"2">> THEN 2
    ELSE IF limitParam.s = <<"2", ".", "9">> THEN 2
    ELSE IF limitParam.s = <<"-", "3">> THEN 1
    ELSE 25

\* the request carries the finite lat and lng of the requests
FinitePosition == nearest.status # 0 /\ nearest.lat = LatParam /\ nearest.lng = LngParam

\* the position of the request, 44.231 degrees north and 76.486 degrees west
Origin == LatLng(Norm(44231, -3), Norm(-76486, -3))

\* options is sorted by non-decreasing distanceMeters
SortedByDistance(options) ==
    \A i \in 1..Len(options), j \in 1..Len(options) :
        i < j => ~Lt(options[j].distanceMeters, options[i].distanceMeters)

\* options are count different lots of all, each with its distance from the
\* position, and no lot left out is nearer than one of them
NearestOf(options, all) ==
    \E f \in [1..Len(options) -> 1..Len(all)] :
        /\ \A i \in 1..Len(options), j \in 1..Len(options) : i # j => f[i] # f[j]
        /\ \A i \in 1..Len(options) : options[i] = all[f[i]]
        /\ \A k \in 1..Len(all) :
               (\A i \in 1..Len(options) : f[i] # k)
                   => \A i \in 1..Len(options) :
                          ~Lt(all[k].distanceMeters, options[i].distanceMeters)

\* C19: GET /api/nearest with finite lat and lng answers 200 with options
\* sorted by non-decreasing distanceMeters from (lat, lng), of length
\* min(L, number of loaded lots), the L lots nearest to (lat, lng), where L
\* is floor(limit) clamped to 1..25 and 5 when limit is absent or not a
\* finite number.
C19_NearestOptions ==
    FinitePosition
        => LET L == ExpectedLimit(nearest.limitRaw)
               all == WithDistance(Origin, cachedLots.rows)
           IN  /\ nearest.status = 200
               /\ nearest.limit = L
               /\ cachedLots.cached
               /\ Len(nearest.options) = (IF L < Len(all) THEN L ELSE Len(all))
               /\ SortedByDistance(nearest.options)
               /\ NearestOf(nearest.options, all)

\* three lots are loaded, the request asks for two, and the nearer two are
\* returned, the nearest first, though it is the last lot of the file
C19_Witness ==
    /\ FinitePosition
    /\ nearest.limitRaw = Param(<<"2", ".", "9">>)
    /\ Len(cachedLots.rows) = 3
    /\ Len(nearest.options) = 2
    /\ nearest.options[1].id = cachedLots.rows[3].id
    /\ Lt(nearest.options[1].distanceMeters, nearest.options[2].distanceMeters)

-----------------------------------------------------------------------------
(* Properties of the server's lot list *)

\* the features of the file without accessible spaces, without an id, and
\* without a centroid
WithoutSpaces == {CountZero, CountAbsent, CountText, CountNegative}
WithoutId == {BlankId, NoId}
WithoutCentroid == {NoGeometryLot, PointLot, EmptyRingLot, NaNRingLot}

\* the count is a string that parses to an integer above zero
PositiveCount(handicapSpace) ==
    /\ IsFinite(ParseInt(handicapSpace))
    /\ ParseInt(handicapSpace)[2] = 1
    /\ ParseInt(handicapSpace)[1] > 0

\* C20: once loadParkingLots has succeeded, every entry of the cached list
\* has a HANDICAP_SPACE count that parses to an integer > 0, a non-empty id
\* and finite lat and lng; features with no accessible spaces, no id or a
\* null centroid are never in the list, and every other feature is.
C20_ListedLotsAreUsable ==
    cachedLots.cached
        => /\ \A i \in 1..Len(cachedLots.rows) :
                  /\ PositiveCount(cachedLots.rows[i].handicapSpace)
                  /\ cachedLots.rows[i].id # <<>>
                  /\ IsFinite(cachedLots.rows[i].lat)
                  /\ IsFinite(cachedLots.rows[i].lng)
           /\ \A k \in 1..Len(features) :
                  features[k] \in WithoutSpaces \cup WithoutId \cup WithoutCentroid
                      => \A i \in 1..Len(cachedLots.rows) :
                             cachedLots.rows[i].id # StringOf(IdRaw(features[k]))
           /\ Len(cachedLots.rows)
                  = Cardinality({k \in 1..Len(features) :
                                    features[k] \notin WithoutSpaces \cup WithoutId \cup WithoutCentroid})

\* a file of a lot without accessible spaces and a lot with three of them
\* has been loaded, and the list holds the second alone
C20_Witness ==
    /\ cachedLots.cached
    /\ features = <<CountZero, LotB>>
    /\ Len(cachedLots.rows) = 1
    /\ cachedLots.rows[1].id = <<"2">>
    /\ cachedLots.rows[1].handicapSpace = <<" ", "3">>

-----------------------------------------------------------------------------
(* Properties of formatDistance below 1000 m *)

\* the string is a whole number of metres between 0 and 999 and " m"
WholeMetresBelow1000(str) ==
    \E n \in 0..999 : str = Digits(n) \o <<" ", "m">>

\* C30: for every distance m with 0 <= m < 1000, formatDistance of the web
\* geo module and of Android returns a whole number of metres between 0 and
\* 999 followed by " m": the metres branch never prints "1000 m".
C30_MetresBelow1000 ==
    (/\ call.fn \in {"geo.formatDistance", "HomeMapScreen.formatDistance"}
     /\ ~Less(call.meters, Num(0))
     /\ Less(call.meters, Num(1000)))
        => WholeMetresBelow1000(call.ret)


-----------------------------------------------------------------------------
(* Properties of the assistant cache of the server *)

\* C21: after POST /api/ai/reset-thread has answered with no other request
\* in flight, cachedThreadId and cachedAssistantId are both null, and the
\* requests that follow create a new assistant and a new thread before they
\* send: no message sent after such a reset goes to a thread, or to a
\* thread of an assistant, that existed before the reset.
C21_ResetStartsAfresh ==
    /\ quiet.fresh => cachedThreadId = NullId /\ cachedAssistantId = NullId
    /\ \A msg \in sent : ~msg.staleThread /\ ~msg.staleAssistant

\* a thread was cached, the cache was reset with no request in flight, and
\* a later message has gone to a thread and an assistant created since
C21_Witness ==
    /\ quiet.threads > 0
    /\ \E msg \in sent : msg.thread > quiet.threads /\ msg.assistant > quiet.assistants

\* the request has been answered
Done(req) == req.pc = "done"

\* C22: when every Backboard call of a POST /api/ai/recommend-parking fails
\* (a missing API key included) and the parking data loads, a request with
\* a non-empty message is answered 200 with an intent found by the local
\* keywords, and no error is returned; a request whose message is missing
\* or blank is answered 400 without any Backboard call.
C22_LocalFallback ==
    \A r \in 1..MaxRequests :
        Done(requests[r])
            => /\ requests[r].blank
                   => /\ requests[r].status = 400
                      /\ requests[r].okCalls + requests[r].failedCalls = 0
               /\ (/\ ~requests[r].blank
                   /\ requests[r].okCalls = 0
                   /\ requests[r].failedCalls > 0
                   /\ ~requests[r].loadFailed)
                   => /\ requests[r].status = 200
                      /\ requests[r].intent = "local"
                      /\ ~requests[r].error

\* the server has no API key and has answered 200 from the local keywords
C22_Witness ==
    /\ ~backboard.key
    /\ \E r \in 1..MaxRequests :
           /\ Done(requests[r])
           /\ ~requests[r].blank
           /\ requests[r].failedCalls = 1
           /\ requests[r].status = 200
           /\ requests[r].intent = "local"

\* C27: under every interleaving of POST /api/ai/recommend-parking and
\* POST /api/ai/reset-thread, whenever cachedThreadId is not null the
\* thread it names was created under the assistant that cachedAssistantId
\* names: no thread is cached with another assistant or with none.
C27_ThreadOfCachedAssistant ==
    cachedThreadId # NullId
        => /\ cachedAssistantId # NullId
           /\ backboard.threads[cachedThreadId] = cachedAssistantId


\* the request of the chat was answered from the local parsing
LocalFallback == chat.answer.status = 200 /\ chat.request.outcome # "content"

\* the listed lots whose first word the user's message contains
NamedLots ==
    LET message == TrimText(chat.request.message)
        options == ContextParkingOptions(message)
    IN  {i \in 1..Len(options) :
            Includes(ToLowerCase(ActualUserMessage(message)), FirstWord(ToLowerCase(options[i].name)))}

\* the message has a context of two or more options, names one and says it is full
ReportsFullLot ==
    /\ LocalFallback
    /\ Len(ContextParkingOptions(TrimText(chat.request.message))) >= 2
    /\ NamedLots # {}
    /\ SaysFull(ToLowerCase(ActualUserMessage(TrimText(chat.request.message))))

ResolvedDestination == chat.answer.status = 200 /\ ~chat.answer.isConversation

\* max(1000, 5 * maxWalkDistance) metres, 2500 without a walking distance
ExpectedRadius(walk) ==
    IF walk = NullDistance THEN 2500 ELSE IF 5 * walk > 1000 THEN 5 * walk ELSE 1000

\* the usable lots of the file that lie within the radius of the destination
LotsWithinRadius ==
    LET all == WithDistance(chat.answer.destination, Rows(features))
    IN  SelectSeq(all, LAMBDA x : ~Lt(F(ExpectedRadius(chat.answer.userMaxWalk)), x.distanceMeters))

\* C24: when a destination or an area is resolved, recommendations has at
\* most 10 entries, is sorted by non-decreasing distance from the
\* destination, every entry lies within max(1000, 5 * maxWalkDistance)
\* metres (2500 m without a walking distance), and the entries are the
\* nearest lots within that radius
C24_Recommendations ==
    LET recs == chat.answer.recommendations
        inside == LotsWithinRadius
    IN  ResolvedDestination =>
            /\ Len(recs) <= 10
            /\ SortedByDistance(recs)
            /\ \A i \in 1..Len(recs) : \E k \in 1..Len(inside) : recs[i] = inside[k]
            /\ \A i \in 1..Len(recs), j \in 1..Len(recs) : i # j => recs[i].id # recs[j].id
            /\ Len(recs) = (IF Len(inside) < 10 THEN Len(inside) ELSE 10)
            /\ \A k \in 1..Len(inside) :
                   (\A i \in 1..Len(recs) : recs[i] # inside[k])
                       => \A i \in 1..Len(recs) : ~Lt(inside[k].distanceMeters, recs[i].distanceMeters)

\* ten lots are recommended and an eleventh within the radius is left out
C24_Witness ==
    /\ ResolvedDestination
    /\ Len(chat.answer.recommendations) = 10
    /\ Len(LotsWithinRadius) > 10

\* a walking distance of 100 m is given, and a usable lot lies beyond the
\* 1000 m that are searched
C24_WitnessSmallRadius ==
    /\ ResolvedDestination
    /\ chat.answer.userMaxWalk = 100
    /\ chat.answer.recommendations # <<>>
    /\ Len(LotsWithinRadius) < Len(Rows(features))


\* a call of searchNearby is made in the step
SearchIsCalled == \E j \in 1..MaxSearches : jobs[j].pc = "none" /\ jobs'[j].pc = "calling"

\* C25: each call of searchNearby sets uiState to Loading at once; when the
\* repository call of a search has returned or thrown, uiState becomes
\* Loaded with the returned spots, or Error with the message of the
\* exception or "Unknown error"; with fair scheduling uiState does not stay
\* Loading forever, and it is never Idle again after the first search
C25_SearchEnds ==
    /\ [][SearchIsCalled => uiState' = Loading]_vars
    /\ [][\A j \in 1..MaxSearches :
              (jobs[j].pc = "returned" /\ jobs'[j].pc = "done")
                  => uiState' = (IF jobs[j].thrown
                                   THEN Error(IF jobs[j].hasMessage THEN jobs[j].message
                                              ELSE "Unknown error")
                                   ELSE Loaded(jobs[j].spots))]_vars
    /\ \A j \in 1..MaxSearches : (jobs[j].pc = "returned") ~> (jobs[j].pc = "done")
    /\ (uiState = Loading) ~> (uiState.kind \in {"Loaded", "Error"})
    /\ []((\E j \in 1..MaxSearches : jobs[j].pc # "none") => uiState # Idle)

\* a search has ended with an exception that has no message, and a search
\* has ended with spots
C25_Witness ==
    /\ uiState = Error("Unknown error")
    /\ \E j \in 1..MaxSearches : jobs[j].pc = "done" /\ jobs[j].thrown /\ ~jobs[j].hasMessage
    /\ \E j \in 1..MaxSearches : jobs[j].pc = "done" /\ ~jobs[j].thrown /\ jobs[j].spots # <<>>

\* the last call of searchNearby
LastSearch == CHOOSE j \in 1..MaxSearches : jobs[j].pc # "none" /\ \A i \in 1..MaxSearches : jobs[i].pc # "none" => i <= j

\* C28: when searchNearby is called for centre A and then for centre B
\* before the first repository call has completed, uiState holds the result
\* of the search for B once both calls have completed, in whichever order
\* they complete
C28_LatestSearchWins ==
    (/\ \E j \in 1..MaxSearches : jobs[j].pc # "none"
     /\ \A j \in 1..MaxSearches : jobs[j].pc \in {"none", "done"})
        => uiState = StateAfter(jobs[LastSearch])


\* a call of backboardGetOrCreateThread begins in slot c in the step
GetOrCreateBegins(c) ==
    /\ threadCalls[c].pc \in {"idle", "returned", "thrown"}
    /\ threadCalls'[c] # threadCalls[c]
    /\ threadCalls'[c].fn = "backboardGetOrCreateThread"

\* C26: after any sequence of backboardGetOrCreateThread and
\* backboardResetThread calls, creations that fail included, localStorage
\* holds both the assistant id and the thread id or neither; a creation
\* that fails stores nothing; and when both ids are stored
\* backboardGetOrCreateThread returns the stored pair without a request
C26_BothOrNeither ==
    /\ []((localStorage.assistant = "") <=> (localStorage.thread = ""))
    /\ [][\A c \in 1..MaxThreadCalls :
              (threadCalls[c].pc = "creating" /\ threadCalls'[c].pc = "thrown")
                  => localStorage' = localStorage]_vars
    /\ [][\A c \in 1..MaxThreadCalls :
              (GetOrCreateBegins(c) /\ localStorage.assistant # "" /\ localStorage.thread # "")
                  => /\ threadCalls'[c].pc = "returned"
                     /\ ~threadCalls'[c].fetched
                     /\ threadCalls'[c].returned = <<localStorage.assistant, localStorage.thread>>
                     /\ localStorage' = localStorage]_vars

\* a pair created after a reset is stored, a call has returned it without a
\* request, and a creation has failed
C26_Witness ==
    /\ localStorage.assistant = "assistant-2"
    /\ localStorage.thread = "thread-2"
    /\ \E c \in 1..MaxThreadCalls :
           /\ threadCalls[c].pc = "returned"
           /\ ~threadCalls[c].fetched
           /\ threadCalls[c].returned = <<"assistant-2", "thread-2">>
    /\ \E c \in 1..MaxThreadCalls : threadCalls[c].pc = "thrown"

====
